---- MODULE Spec2Model ----
(***************************************************************************)
(* A model of MetaCheck's pitfall detection pipeline.                      *)
(*                                                                         *)
(*   - detect_all_pitfalls (src/src/metacheck/detect_pitfalls_main.py):    *)
(*     the loop over the SoMEF output files, the per-record rule table,    *)
(*     the aggregation and the finalisation of the corpus summary.         *)
(*   - the rule functions whose source is present (P008, P011, W014,       *)
(*     P018 issue tracker, P019 download URL) and the language tagger of   *)
(*     pitfall_utils.py.                                                   *)
(*                                                                         *)
(* Python values are records [t |-> type tag, v |-> sequence of one-       *)
(* character strings]; a Python str is [t |-> "str", v |-> its chars].     *)
(***************************************************************************)
EXTENDS Integers, Sequences, FiniteSets, TLC

\* ------------------------------------------------------------------------
\* Bounds of the model
\* ------------------------------------------------------------------------
MaxFiles == 3

\* ------------------------------------------------------------------------
\* Python strings as sequences of characters
\* ------------------------------------------------------------------------
\* The characters of a string literal
Chars(str) == [i \in 1..Len(str) |-> SubSeq(str, i, i)]

UpperChars == <<"A","B","C","D","E","F","G","H","I","J","K","L","M",
                "N","O","P","Q","R","S","T","U","V","W","X","Y","Z">>
LowerChars == <<"a","b","c","d","e","f","g","h","i","j","k","l","m",
                "n","o","p","q","r","s","t","u","v","w","x","y","z">>
DecimalDigits == <<"0","1","2","3","4","5","6","7","8","9">>
DigitChars == {DecimalDigits[i] : i \in 1..10}
SpaceChars == {" ", "\n", "\t", "\r"}

IsUpper(c) == \E i \in 1..26 : UpperChars[i] = c
IsDigit(c) == c \in DigitChars

\* str.lower() on one character
LowerChar(c) ==
    IF IsUpper(c) THEN LowerChars[CHOOSE i \in 1..26 : UpperChars[i] = c] ELSE c

\* str.lower()
Lower(s) == [i \in 1..Len(s) |-> LowerChar(s[i])]

\* s[i:j] with 1-based inclusive bounds; empty when i > j
Slice(s, i, j) == IF i > j THEN <<>> ELSE SubSeq(s, i, j)

\* str.startswith(p)
StartsWith(s, p) == Len(p) <= Len(s) /\ SubSeq(s, 1, Len(p)) = p

\* str.endswith(p)
EndsWith(s, p) == Len(p) <= Len(s) /\ SubSeq(s, Len(s) - Len(p) + 1, Len(s)) = p

\* the substring p starts at position i of s
OccursAt(s, p, i) == i >= 1 /\ i + Len(p) - 1 <= Len(s) /\ SubSeq(s, i, i + Len(p) - 1) = p

\* p in s
Contains(s, p) == \E i \in 1..(Len(s) + 1) : OccursAt(s, p, i)

\* str.strip(): drop leading and trailing whitespace
Strip(s) ==
    LET keep == {i \in 1..Len(s) : s[i] \notin SpaceChars}
    IN  IF keep = {} THEN <<>>
        ELSE LET lo == CHOOSE i \in keep : \A j \in keep : i <= j
                 hi == CHOOSE i \in keep : \A j \in keep : i >= j
             IN  SubSeq(s, lo, hi)

\* ------------------------------------------------------------------------
\* Python values: str, int, None, list and dict
\* ------------------------------------------------------------------------
Str(s)     == [t |-> "str", v |-> s]
IntVal(s)  == [t |-> "int", v |-> s]
NoneVal    == [t |-> "none"]
ListVal(s) == [t |-> "list", items |-> s]
Dict(d)    == [t |-> "dict", d |-> d]
EmptyDict  == Dict([k \in {} |-> NoneVal])

IsStr(x)  == x.t = "str"
IsList(x) == x.t = "list"
IsDict(x) == x.t = "dict"

\* key in x, for a dict x
Has(x, key) == key \in DOMAIN x.d

\* Python truthiness: None, "", 0, [] and {} are falsy
Truthy(x) ==
    CASE x.t = "none" -> FALSE
      [] x.t = "int"  -> x.v # <<"0">>
      [] x.t = "str"  -> x.v # <<>>
      [] x.t = "list" -> x.items # <<>>
      [] x.t = "dict" -> DOMAIN x.d # {}

\* dict.get(key, default) on a TLA+ record
Get(d, key, default) == IF key \in DOMAIN d THEN d[key] ELSE default

\* The outcome of a call: a returned value, or a raised exception
Ok(x) == [raised |-> FALSE, val |-> x]
Raise == [raised |-> TRUE]

\* `key in x` followed by the subscription x[key] that the callers make when
\* it is true, for any Python value x; keychars are the characters of key.
\* "yes": x is a dict with the key; "no": the test is false; "raise": the test
\* raises (x is no container) or it is true of a str or a list, whose
\* subscription by a str raises
KeyIn(key, keychars, x) ==
    CASE IsDict(x) -> IF key \in DOMAIN x.d THEN "yes" ELSE "no"
      [] IsStr(x)  -> IF Contains(x.v, keychars) THEN "raise" ELSE "no"
      [] IsList(x) -> IF \E i \in 1..Len(x.items) : x.items[i] = Str(keychars)
                      THEN "raise" ELSE "no"
      [] OTHER     -> "raise"

\* `"result" in entry and "value" in entry["result"]` for a dict entry, and
\* the reading of entry["result"]["value"]: "yes", "no" or "raise"
HasResultValue(entry) ==
    IF ~Has(entry, "result") THEN "no"
    ELSE KeyIn("value", Chars("value"), entry.d.result)

\* ------------------------------------------------------------------------
\* pitfall_utils.py: the language tagger
\* ------------------------------------------------------------------------

target_languages ==
    {Chars("Python"), Chars("Java"), Chars("C++"), Chars("C"), Chars("R"), Chars("Rust")}

\* A tagger that only strips the name
StripLanguageName(lang_name) == Strip(lang_name)

\* normalize_language_name(lang_name) for a str lang_name (the caller
\* accounts for the AttributeError of .strip() on any other type)
normalize_language_name(lang_name) ==
    LET stripped == Strip(lang_name)
        low      == Lower(stripped)
    IN  IF StartsWith(low, Chars("python")) THEN Chars("Python")
        ELSE IF low \in {Chars("c++"), Chars("cpp"), Chars("cplusplus")} THEN Chars("C++")
        ELSE IF low = Chars("java") THEN Chars("Java")
        ELSE IF low = Chars("c") THEN Chars("C")
        ELSE IF low = Chars("r") THEN Chars("R")
        ELSE IF low = Chars("rust") THEN Chars("Rust")
        ELSE stripped

\* An extraction that keeps every language named, whether or not it is one
\* of the target languages
RECURSIVE UnfilteredLanguageLoop(_, _, _)
UnfilteredLanguageLoop(language_entries, i, lang_list) ==
    IF i > Len(language_entries) THEN Ok(lang_list)
    ELSE
      LET lang_entry == language_entries[i]
          named == /\ IsDict(lang_entry) /\ Has(lang_entry, "result")
                   /\ IsDict(lang_entry.d.result) /\ Has(lang_entry.d.result, "value")
                   /\ IsStr(lang_entry.d.result.d.value)
      IN  UnfilteredLanguageLoop(language_entries, i + 1,
            IF named
            THEN Append(lang_list, normalize_language_name(lang_entry.d.result.d.value.v))
            ELSE lang_list)

\* The for loop of extract_programming_languages from entry i on, with the
\* languages found so far; Raise when normalize_language_name raises
RECURSIVE LanguageLoop(_, _, _)
LanguageLoop(language_entries, i, lang_list) ==
    IF i > Len(language_entries) THEN Ok(lang_list)
    ELSE
      LET lang_entry == language_entries[i]
      IN  IF IsDict(lang_entry) /\ Has(lang_entry, "result") /\ IsDict(lang_entry.d.result)
          THEN
            LET result    == lang_entry.d.result
                lang_name == IF Has(result, "value") THEN result.d.value
                             ELSE IF Has(result, "name") THEN result.d.name
                             ELSE NoneVal
            IN  IF ~Truthy(lang_name) THEN LanguageLoop(language_entries, i + 1, lang_list)
                ELSE IF ~IsStr(lang_name) THEN Raise
                ELSE
                  LET normalized_lang == normalize_language_name(lang_name.v)
                      seen_languages  == {lang_list[k] : k \in 1..Len(lang_list)}
                  IN  LanguageLoop(language_entries, i + 1,
                        IF normalized_lang \in target_languages
                           /\ normalized_lang \notin seen_languages
                        THEN Append(lang_list, normalized_lang)
                        ELSE lang_list)
          ELSE LanguageLoop(language_entries, i + 1, lang_list)

\* extract_programming_languages(somef_data), somef_data a dict
extract_programming_languages(somef_data) ==
    IF ~Has(somef_data, "programming_languages") THEN Ok(<<>>)
    ELSE LET language_entries == somef_data.d.programming_languages
         IN  IF ~IsList(language_entries) THEN Ok(<<>>)
             ELSE LanguageLoop(language_entries.items, 1, <<>>)

\* ------------------------------------------------------------------------
\* Searches of the rules
\* ------------------------------------------------------------------------
\* re.search(r'https?' + u, s) for a literal u
SearchHttpUrl(s, u) == Contains(s, Chars("http") \o u) \/ Contains(s, Chars("https") \o u)

\* re.search('^' + p + '$', s) and re.search(p + '$', s) for a literal p;
\* '$' matches at the end of s and before a final newline
SearchWhole(s, p) == s = p \/ s = p \o <<"\n">>
SearchSuffix(s, p) == EndsWith(s, p) \/ EndsWith(s, p \o <<"\n">>)

\* The last component of a path: s.split('/')[-1].split('\\')[-1]
LastComponent(s) ==
    LET seps == {i \in 1..Len(s) : s[i] \in {"/", "\\"}}
    IN  IF seps = {} THEN s
        ELSE LET last == CHOOSE i \in seps : \A j \in seps : j <= i
             IN  Slice(s, last + 1, Len(s))

\* ------------------------------------------------------------------------
\* json_ld_utils.py: extract_metadata_source_filename
\* ------------------------------------------------------------------------
metadata_files ==
    <<Chars("codemeta.json"), Chars("DESCRIPTION"), Chars("composer.json"),
      Chars("package.json"), Chars("pom.xml"), Chars("pyproject.toml"),
      Chars("requirements.txt"), Chars("setup.py")>>

filename_extensions ==
    {Chars(".json"), Chars(".xml"), Chars(".yml"), Chars(".toml"), Chars(".txt")}

extract_metadata_source_filename(source_path) ==
    IF source_path = <<>> THEN Chars("metadata files")
    ELSE IF \E k \in 1..Len(metadata_files) : Contains(source_path, metadata_files[k])
    THEN metadata_files[CHOOSE k \in 1..Len(metadata_files) :
                          /\ Contains(source_path, metadata_files[k])
                          /\ \A j \in 1..(k - 1) : ~Contains(source_path, metadata_files[j])]
    ELSE IF Contains(source_path, Chars("/")) \/ Contains(source_path, <<"\\">>)
    THEN LET filename == LastComponent(source_path)
         IN  IF \E e \in filename_extensions : Contains(Lower(filename), e)
             THEN filename ELSE Chars("metadata files")
    ELSE Chars("metadata files")

\* ------------------------------------------------------------------------
\* scripts/p008.py (package version): license pointing to a local file
\* ------------------------------------------------------------------------
\* valid_license_patterns, each without its leading r'https?' and lowered,
\* as re.IGNORECASE matches them
valid_license_patterns ==
    {Chars("://spdx.org/licenses/"), Chars("://opensource.org/licenses/"),
     Chars("://www.gnu.org/licenses/"), Chars("://creativecommons.org/licenses/"),
     Chars("://www.apache.org/licenses/"), Chars("://www.mozilla.org/en-us/mpl/"),
     Chars("://unlicense.org"), Chars("://choosealicense.com/")}

license_file_names ==
    {Chars("license"), Chars("license.md"), Chars("license.txt"), Chars("license.rst"),
     Chars("copying"), Chars("copying.md"), Chars("copying.txt"),
     Chars("copyright"), Chars("copyright.md"), Chars("copyright.txt"),
     Chars("licence"), Chars("licence.md"), Chars("licence.txt")}

\* the local_file_patterns table, searched in license_lower
MatchesLocalFilePattern(license_lower) ==
    \/ StartsWith(license_lower, Chars("./"))
    \/ StartsWith(license_lower, Chars("../"))
    \/ \E p \in {Chars("license.md"), Chars("license.txt"), Chars("license"),
                 Chars("copying"), Chars("copyright")} :
          SearchWhole(license_lower, p)
    \/ \E p \in {Chars(".md"), Chars(".txt"), Chars(".rst")} : SearchSuffix(license_lower, p)

\* is_local_file_license(license_value) for any Python value
is_local_file_license(license_value) ==
    IF ~Truthy(license_value) THEN Ok(FALSE)
    ELSE IF ~IsStr(license_value) THEN Raise      \* .lower() on a non-str
    ELSE
      LET v             == license_value.v
          license_lower == Lower(v)
      IN  IF \E u \in valid_license_patterns : SearchHttpUrl(license_lower, u)
          THEN Ok(FALSE)
          ELSE IF StartsWith(v, Chars("./")) \/ StartsWith(v, Chars("../")) THEN Ok(TRUE)
          ELSE IF /\ Contains(v, Chars("/")) \/ Contains(v, <<"\\">>)
                  /\ ~StartsWith(v, Chars("http"))
          THEN Ok(TRUE)
          ELSE IF MatchesLocalFilePattern(license_lower) THEN Ok(TRUE)
          ELSE IF license_lower \in license_file_names THEN Ok(TRUE)
          ELSE Ok(FALSE)

p008_metadata_sources == metadata_files

\* `technique == "code_parser" or any(src in source.lower() for src in
\* metadata_sources)` for an entry's technique and source: "yes", "no", "raise"
FromMetadataSource(technique, source) ==
    IF technique = Str(Chars("code_parser")) THEN "yes"
    ELSE IF ~IsStr(source) THEN "raise"
    ELSE IF \E k \in 1..Len(p008_metadata_sources) :
               Contains(Lower(source.v), p008_metadata_sources[k])
    THEN "yes" ELSE "no"

P008Initial(file_name) ==
    [has_pitfall |-> FALSE, file_name |-> file_name, license_value |-> NoneVal,
     source |-> NoneVal, metadata_source_file |-> NoneVal, is_local_file |-> FALSE]

\* The for loop of detect_local_file_license_pitfall from entry i on
RECURSIVE P008Loop(_, _, _)
P008Loop(license_entries, i, result) ==
    IF i > Len(license_entries) THEN Ok(result)
    ELSE
      LET entry == license_entries[i]
      IN  IF ~IsDict(entry) THEN Raise            \* entry.get on a non-dict
          ELSE
            LET technique == Get(entry.d, "technique", Str(<<>>))
                source    == Get(entry.d, "source", Str(<<>>))
                from      == FromMetadataSource(technique, source)
            IN  IF from = "raise" THEN Raise
                ELSE IF from = "no" THEN P008Loop(license_entries, i + 1, result)
                ELSE IF HasResultValue(entry) = "raise" THEN Raise
                ELSE IF HasResultValue(entry) = "no"
                THEN P008Loop(license_entries, i + 1, result)
                ELSE
                  LET license_value == entry.d.result.d.value
                      local         == is_local_file_license(license_value)
                  IN  IF local.raised THEN Raise
                      ELSE IF ~local.val THEN P008Loop(license_entries, i + 1, result)
                      ELSE IF Truthy(source) /\ ~IsStr(source) THEN Raise
                      ELSE Ok([has_pitfall |-> TRUE, file_name |-> result.file_name,
                               license_value |-> license_value,
                               source |-> IF Truthy(source) THEN source
                                          ELSE Str(Chars("technique: ") \o
                                                   (IF IsStr(technique) THEN technique.v
                                                    ELSE <<>>)),
                               metadata_source_file |->
                                   Str(extract_metadata_source_filename(
                                         IF Truthy(source) THEN source.v ELSE <<>>)),
                               is_local_file |-> TRUE])

\* detect_local_file_license_pitfall(somef_data, file_name)
detect_local_file_license_pitfall(somef_data, file_name) ==
    IF ~Has(somef_data, "license") THEN Ok(P008Initial(file_name))
    ELSE LET license_entries == somef_data.d.license
         IN  IF ~IsList(license_entries) THEN Ok(P008Initial(file_name))
             ELSE P008Loop(license_entries.items, 1, P008Initial(file_name))

\* ------------------------------------------------------------------------
\* Regular expressions of the rules, matched as re.search matches them
\* ------------------------------------------------------------------------
\* The end of the longest run of characters of `chars` that starts at i
\* (i - 1 when s[i] is not one of them)
RunEnd(s, i, chars) ==
    CHOOSE j \in (i - 1)..Len(s) :
        /\ \A k \in i..j : s[k] \in chars
        /\ (j < Len(s) => s[j + 1] \notin chars)

LetterChars == {UpperChars[i] : i \in 1..26} \cup {LowerChars[i] : i \in 1..26}

\* [a-zA-Z0-9\-\.]
VersionTailChars == LetterChars \cup DigitChars \cup {"-", "."}

\* \d+\.\d+ matches at position p
VersionAt(s, p) ==
    LET e1 == RunEnd(s, p, DigitChars)
    IN  /\ p >= 1 /\ p <= Len(s)
        /\ e1 >= p
        /\ e1 + 2 <= Len(s)
        /\ s[e1 + 1] = "."
        /\ IsDigit(s[e1 + 2])

\* (?:v)?(\d+\.\d+...) tried at position q: where the group starts, 0 for no match
GroupStart(s, q) ==
    IF q >= 1 /\ q <= Len(s) /\ s[q] = "v" /\ VersionAt(s, q + 1) THEN q + 1
    ELSE IF VersionAt(s, q) THEN q
    ELSE 0

\* The group (\d+\.\d+(?:\.\d+)?(?:[a-zA-Z0-9\-\.]*)?) starting at g when nothing
\* follows it in the pattern: greedy, so it runs to the end of the tail characters
GreedyVersion(s, g) == Slice(s, g, RunEnd(s, g, VersionTailChars))

\* The least element of a non-empty set of positions
MinPos(S) == CHOOSE i \in S : \A j \in S : i <= j
MaxPos(S) == CHOOSE i \in S : \A j \in S : i >= j

\* r'10\.\d+/'
SearchDoiNumber(s) ==
    \E i \in 1..Len(s) :
        /\ OccursAt(s, <<"1","0",".">>, i)
        /\ LET e == RunEnd(s, i + 3, DigitChars)
           IN  e >= i + 3 /\ e < Len(s) /\ s[e + 1] = "/"

\* r'/archive/(?:v)?(G)': the group of the leftmost match, or "none"
ArchiveVersion(url) ==
    LET archive == Chars("/archive/")
        starts  == {i \in 1..Len(url) :
                      /\ OccursAt(url, archive, i)
                      /\ GroupStart(url, i + Len(archive)) > 0}
    IN  IF starts = {} THEN NoneVal
        ELSE Str(GreedyVersion(url, GroupStart(url, MinPos(starts) + Len(archive))))

\* r'[-_](?:v)?(G)\.': the group must be followed by a dot, so the greedy tail
\* gives back characters down to the last dot of the run
DotPositions(url, g) ==
    {d \in g..RunEnd(url, g, VersionTailChars) :
        url[d] = "." /\ d >= RunEnd(url, g, DigitChars) + 3}

SuffixVersion(url) ==
    LET starts == {i \in 1..Len(url) :
                      /\ url[i] \in {"-", "_"}
                      /\ GroupStart(url, i + 1) > 0
                      /\ DotPositions(url, GroupStart(url, i + 1)) # {}}
    IN  IF starts = {} THEN NoneVal
        ELSE LET g == GroupStart(url, MinPos(starts) + 1)
             IN  Str(Slice(url, g, MaxPos(DotPositions(url, g)) - 1))

\* r'/(?:v)?(G)/[^/]*$': the version is the last but one path segment
SegmentVersion(url) ==
    LET starts == {i \in 1..Len(url) :
                      /\ url[i] = "/"
                      /\ GroupStart(url, i + 1) > 0
                      /\ LET e == RunEnd(url, GroupStart(url, i + 1), VersionTailChars)
                         IN  /\ e < Len(url)
                             /\ url[e + 1] = "/"
                             /\ \A k \in (e + 2)..Len(url) : url[k] # "/"}
    IN  IF starts = {} THEN NoneVal
        ELSE Str(GreedyVersion(url, GroupStart(url, MinPos(starts) + 1)))

\* r'(?:v)?(G)' searched in a release name
NameVersion(name) ==
    LET starts == {i \in 1..Len(name) : GroupStart(name, i) > 0}
    IN  IF starts = {} THEN NoneVal
        ELSE Str(GreedyVersion(name, GroupStart(name, MinPos(starts))))

\* `"codemeta.json" in source or (technique == "code_parser" and "codemeta"
\* in source.lower())` for a str source
FromCodemeta(technique, source) ==
    \/ Contains(source, Chars("codemeta.json"))
    \/ (technique = Str(Chars("code_parser")) /\ Contains(Lower(source), Chars("codemeta")))

\* ------------------------------------------------------------------------
\* scripts/w014.py: codemeta identifier is a name
\* ------------------------------------------------------------------------
\* is_valid_identifier(identifier) for any Python value
is_valid_identifier(identifier) ==
    IF ~Truthy(identifier) THEN Ok(FALSE)
    ELSE IF ~IsStr(identifier) THEN Raise         \* .lower() on a non-str
    ELSE LET identifier_lower == Lower(identifier.v)
         IN  Ok(\/ Contains(identifier_lower, Chars("doi:"))
                \/ SearchDoiNumber(identifier_lower)
                \/ SearchHttpUrl(identifier_lower, <<":","/","/">>))

\* has_doi_in_other_sources(identifier_entries) from entry i on
RECURSIVE has_doi_in_other_sources(_, _)
has_doi_in_other_sources(identifier_entries, i) ==
    IF i > Len(identifier_entries) THEN Ok(FALSE)
    ELSE
      LET entry == identifier_entries[i]
          hv    == HasResultValue(entry)
      IN  IF hv = "raise" THEN Raise
          ELSE IF hv = "no" THEN has_doi_in_other_sources(identifier_entries, i + 1)
          ELSE
            LET identifier_value == entry.d.result.d.value
                source           == Get(entry.d, "source", Str(<<>>))
            IN  IF Contains(source.v, Chars("codemeta.json"))
                THEN has_doi_in_other_sources(identifier_entries, i + 1)
                ELSE IF ~IsStr(identifier_value) THEN Raise    \* .lower() on a non-str
                ELSE IF \/ Contains(Lower(identifier_value.v), Chars("doi"))
                        \/ SearchDoiNumber(identifier_value.v)
                THEN Ok(TRUE)
                ELSE has_doi_in_other_sources(identifier_entries, i + 1)

W014Initial(file_name) ==
    [has_warning |-> FALSE, file_name |-> file_name, codemeta_identifier |-> NoneVal,
     codemeta_source |-> NoneVal, has_valid_identifier_elsewhere |-> FALSE,
     other_identifiers |-> <<>>]

\* The first loop of detect_identifier_name_warning from entry i on: the
\* codemeta identifier, its source and the identifiers of the other sources
RECURSIVE W014Collect(_, _, _)
W014Collect(identifier_entries, i, acc) ==
    IF i > Len(identifier_entries) THEN Ok(acc)
    ELSE
      LET entry == identifier_entries[i]
      IN  IF ~IsDict(entry) THEN Raise            \* entry.get on a non-dict
          ELSE
            LET source    == Get(entry.d, "source", Str(<<>>))
                technique == Get(entry.d, "technique", Str(<<>>))
                hv        == HasResultValue(entry)
            IN  IF hv = "raise" THEN Raise
                ELSE IF hv = "no" THEN W014Collect(identifier_entries, i + 1, acc)
                ELSE
                  LET identifier_value == entry.d.result.d.value
                  IN  IF FromCodemeta(technique, source.v)
                      THEN W014Collect(identifier_entries, i + 1,
                             [acc EXCEPT !.codemeta_identifier = identifier_value,
                                         !.codemeta_source = source])
                      ELSE W014Collect(identifier_entries, i + 1,
                             [acc EXCEPT !.other_identifiers =
                                 Append(@, [value |-> identifier_value, source |-> source,
                                            technique |-> technique])])

\* `for other_id in other_identifiers: if is_valid_identifier(...): ...; break`
RECURSIVE HasValidElsewhere(_, _)
HasValidElsewhere(other_identifiers, i) ==
    IF i > Len(other_identifiers) THEN Ok(FALSE)
    ELSE LET valid == is_valid_identifier(other_identifiers[i].value)
         IN  IF valid.raised THEN Raise
             ELSE IF valid.val THEN Ok(TRUE)
             ELSE HasValidElsewhere(other_identifiers, i + 1)

\* detect_identifier_name_warning(somef_data, file_name)
detect_identifier_name_warning(somef_data, file_name) ==
    IF ~Has(somef_data, "identifier") THEN Ok(W014Initial(file_name))
    ELSE
      LET identifier_entries == somef_data.d.identifier
      IN  IF ~IsList(identifier_entries) THEN Ok(W014Initial(file_name))
          ELSE
            LET got == W014Collect(identifier_entries.items, 1,
                         [codemeta_identifier |-> NoneVal, codemeta_source |-> NoneVal,
                          other_identifiers |-> <<>>])
            IN  IF got.raised THEN Raise
                ELSE IF ~Truthy(got.val.codemeta_identifier) THEN Ok(W014Initial(file_name))
                ELSE
                  LET valid == is_valid_identifier(got.val.codemeta_identifier)
                  IN  IF valid.raised THEN Raise
                      ELSE IF valid.val THEN Ok(W014Initial(file_name))
                      ELSE
                        LET has_valid_elsewhere ==
                                HasValidElsewhere(got.val.other_identifiers, 1)
                            has_doi_elsewhere   ==
                                has_doi_in_other_sources(identifier_entries.items, 1)
                        IN  IF has_valid_elsewhere.raised \/ has_doi_elsewhere.raised THEN Raise
                            ELSE IF has_valid_elsewhere.val \/ has_doi_elsewhere.val
                            THEN Ok([has_warning |-> TRUE, file_name |-> file_name,
                                     codemeta_identifier |-> got.val.codemeta_identifier,
                                     codemeta_source |-> got.val.codemeta_source,
                                     has_valid_identifier_elsewhere |-> TRUE,
                                     other_identifiers |-> got.val.other_identifiers])
                            ELSE Ok(W014Initial(file_name))

\* ------------------------------------------------------------------------
\* scripts/p021.py: issue tracker URL format
\* ------------------------------------------------------------------------
\* has_url_format_violation(url) for any Python value
has_url_format_violation(url) ==
    IF ~Truthy(url) THEN Ok(FALSE)
    ELSE IF ~IsStr(url) THEN Raise        \* '\n' in url, or url.strip(), on a non-str
    ELSE Ok(\/ Contains(url.v, <<"\n">>) \/ Contains(url.v, <<"\r">>)
            \/ url.v # Strip(url.v)
            \/ Contains(url.v, <<" ", " ">>))

format_violation(issue_url) ==
    IF Contains(issue_url, <<"\n">>) \/ Contains(issue_url, <<"\r">>)
    THEN "Contains newline characters"
    ELSE IF issue_url # Strip(issue_url) THEN "Contains leading/trailing whitespace"
    ELSE IF Contains(issue_url, <<" ", " ">>) THEN "Contains multiple consecutive spaces"
    ELSE "None"

IssueInitial(file_name) ==
    [has_pitfall |-> FALSE, file_name |-> file_name, issue_url |-> NoneVal,
     source |-> NoneVal, format_violation |-> "None"]

RECURSIVE IssueLoop(_, _, _)
IssueLoop(issues_entries, i, file_name) ==
    IF i > Len(issues_entries) THEN Ok(IssueInitial(file_name))
    ELSE
      LET entry == issues_entries[i]
      IN  IF ~IsDict(entry) THEN Raise            \* entry.get on a non-dict
          ELSE
            LET source    == Get(entry.d, "source", Str(<<>>))
                technique == Get(entry.d, "technique", Str(<<>>))
            IN  IF ~FromCodemeta(technique, source.v)
                THEN IssueLoop(issues_entries, i + 1, file_name)
                ELSE IF HasResultValue(entry) = "raise" THEN Raise
                ELSE IF HasResultValue(entry) = "no"
                THEN IssueLoop(issues_entries, i + 1, file_name)
                ELSE
                  LET issue_url == entry.d.result.d.value
                      violation == has_url_format_violation(issue_url)
                  IN  IF violation.raised THEN Raise
                      ELSE IF ~violation.val THEN IssueLoop(issues_entries, i + 1, file_name)
                      ELSE Ok([has_pitfall |-> TRUE, file_name |-> file_name,
                               issue_url |-> issue_url, source |-> source,
                               format_violation |-> format_violation(issue_url.v)])

\* A detector that reads somef_data["issues_url"] without the presence check:
\* KeyError when the property is absent
IssueTrackerUnchecked(somef_data, file_name) ==
    IF ~Has(somef_data, "issues_url") THEN Raise
    ELSE LET issues_entries == somef_data.d.issues_url
         IN  IF ~IsList(issues_entries) THEN Ok(IssueInitial(file_name))
             ELSE IssueLoop(issues_entries.items, 1, file_name)

\* detect_issue_tracker_format_pitfall(somef_data, file_name)
detect_issue_tracker_format_pitfall(somef_data, file_name) ==
    IF ~Has(somef_data, "issues_url") THEN Ok(IssueInitial(file_name))
    ELSE LET issues_entries == somef_data.d.issues_url
         IN  IF ~IsList(issues_entries) THEN Ok(IssueInitial(file_name))
             ELSE IssueLoop(issues_entries.items, 1, file_name)

\* ------------------------------------------------------------------------
\* scripts/p011.py: CITATION.cff without referencePublication
\* ------------------------------------------------------------------------
CitationInitial(file_name) ==
    [has_pitfall |-> FALSE, file_name |-> file_name, codemeta_has_reference |-> FALSE,
     citation_cff_has_reference |-> FALSE, citation_cff_exists |-> FALSE]

\* The loop over the reference_publication entries from entry i on
RECURSIVE RefPubLoop(_, _, _)
RefPubLoop(ref_pub_entries, i, result) ==
    IF i > Len(ref_pub_entries) THEN Ok(result)
    ELSE
      LET entry == ref_pub_entries[i]
      IN  IF ~IsDict(entry) THEN Raise            \* entry.get on a non-dict
          ELSE
            LET source    == Get(entry.d, "source", Str(<<>>))
                technique == Get(entry.d, "technique", Str(<<>>))
            IN  IF technique # Str(Chars("code_parser"))
                THEN RefPubLoop(ref_pub_entries, i + 1, result)
                ELSE IF Contains(source.v, Chars("codemeta.json"))
                THEN RefPubLoop(ref_pub_entries, i + 1,
                                [result EXCEPT !.codemeta_has_reference = TRUE])
                ELSE IF Contains(source.v, Chars("CITATION.cff"))
                THEN RefPubLoop(ref_pub_entries, i + 1,
                                [result EXCEPT !.citation_cff_has_reference = TRUE])
                ELSE RefPubLoop(ref_pub_entries, i + 1, result)

citation_cff_sources == <<"authors", "title", "description", "version", "license">>

\* The inner loop over one category's entries: "found" (break), "none", "raise"
RECURSIVE CitationInEntries(_, _)
CitationInEntries(entries, i) ==
    IF i > Len(entries) THEN "none"
    ELSE IF ~IsDict(entries[i]) THEN "raise"      \* entry.get on a non-dict
    ELSE IF Contains(Get(entries[i].d, "source", Str(<<>>)).v, Chars("CITATION.cff"))
    THEN "found"
    ELSE CitationInEntries(entries, i + 1)

\* The loop over citation_cff_sources from category c on
RECURSIVE CitationExists(_, _, _)
CitationExists(somef_data, c, found) ==
    IF c > Len(citation_cff_sources) THEN Ok(found)
    ELSE
      LET category == citation_cff_sources[c]
      IN  IF ~Has(somef_data, category) \/ ~IsList(somef_data.d[category])
          THEN CitationExists(somef_data, c + 1, found)
          ELSE LET r == CitationInEntries(somef_data.d[category].items, 1)
               IN  IF r = "raise" THEN Raise
                   ELSE CitationExists(somef_data, c + 1, found \/ r = "found")

\* detect_citation_missing_reference_publication_pitfall(somef_data, file_name)
detect_citation_missing_reference_publication_pitfall(somef_data, file_name) ==
    IF ~Has(somef_data, "reference_publication") THEN Ok(CitationInitial(file_name))
    ELSE
      LET ref_pub_entries == somef_data.d.reference_publication
      IN  IF ~IsList(ref_pub_entries) THEN Ok(CitationInitial(file_name))
          ELSE
            LET refs == RefPubLoop(ref_pub_entries.items, 1, CitationInitial(file_name))
            IN  IF refs.raised THEN Raise
                ELSE
                  LET exists == CitationExists(somef_data, 1, FALSE)
                  IN  IF exists.raised THEN Raise
                      ELSE Ok([refs.val EXCEPT
                                 !.citation_cff_exists = exists.val,
                                 !.has_pitfall = /\ refs.val.codemeta_has_reference
                                                 /\ exists.val
                                                 /\ ~refs.val.citation_cff_has_reference])

\* ------------------------------------------------------------------------
\* scripts/p019.py: download URL outdated
\* ------------------------------------------------------------------------
\* extract_version_from_download_url(url) for any Python value
extract_version_from_download_url(url) ==
    IF ~Truthy(url) THEN Ok(NoneVal)
    ELSE IF ~IsStr(url) THEN Raise                \* re.search on a non-str
    ELSE IF ArchiveVersion(url.v) # NoneVal THEN Ok(ArchiveVersion(url.v))
    ELSE IF SuffixVersion(url.v) # NoneVal THEN Ok(SuffixVersion(url.v))
    ELSE Ok(SegmentVersion(url.v))

\* The version of a release's result: its tag without a leading "v", else
\* the version found in its name
ReleaseVersion(result) ==
    LET has_tag  == KeyIn("tag", <<"t","a","g">>, result)
        has_name == KeyIn("name", <<"n","a","m","e">>, result)
    IN  IF has_tag = "raise" THEN Raise
        ELSE IF has_tag = "yes" /\ Truthy(result.d.tag) THEN
            LET tag == result.d.tag
            IN  IF ~IsStr(tag) THEN Raise             \* tag.startswith on a non-str
                ELSE IF StartsWith(tag.v, <<"v">>) THEN Ok(Str(Slice(tag.v, 2, Len(tag.v))))
                ELSE Ok(tag)
        ELSE IF has_name = "raise" THEN Raise
        ELSE IF has_name = "yes" /\ Truthy(result.d.name) THEN
            LET name == result.d.name
            IN  IF ~IsStr(name) THEN Raise            \* re.search on a non-str
                ELSE Ok(NameVersion(name.v))
        ELSE Ok(NoneVal)

\* get_latest_release_version(somef_data)
get_latest_release_version(somef_data) ==
    IF ~Has(somef_data, "releases") THEN Ok(NoneVal)
    ELSE
      LET releases == somef_data.d.releases
      IN  IF ~IsList(releases) \/ ~Truthy(releases) THEN Ok(NoneVal)
          ELSE
            LET latest_release == releases.items[1]
                has_result     == KeyIn("result", <<"r","e","s","u","l","t">>, latest_release)
            IN  IF has_result = "raise" THEN Raise
                ELSE IF has_result = "no" THEN Ok(NoneVal)
                ELSE ReleaseVersion(latest_release.d.result)

DownloadInitial(file_name) ==
    [has_pitfall |-> FALSE, file_name |-> file_name, download_url |-> NoneVal,
     download_version |-> NoneVal, latest_release_version |-> NoneVal, source |-> NoneVal]

\* The loop looking for the codemeta download URL from entry i on:
\* [url, source] of the first codemeta entry that has a result value
RECURSIVE DownloadLoop(_, _)
DownloadLoop(download_entries, i) ==
    IF i > Len(download_entries) THEN Ok([url |-> NoneVal, source |-> NoneVal])
    ELSE
      LET entry == download_entries[i]
      IN  IF ~IsDict(entry) THEN Raise            \* entry.get on a non-dict
          ELSE
            LET source    == Get(entry.d, "source", Str(<<>>))
                technique == Get(entry.d, "technique", Str(<<>>))
            IN  IF ~FromCodemeta(technique, source.v)
                THEN DownloadLoop(download_entries, i + 1)
                ELSE IF HasResultValue(entry) = "raise" THEN Raise
                ELSE IF HasResultValue(entry) = "no"
                THEN DownloadLoop(download_entries, i + 1)
                ELSE Ok([url |-> entry.d.result.d.value, source |-> source])

\* detect_outdated_download_url_pitfall(somef_data, file_name)
detect_outdated_download_url_pitfall(somef_data, file_name) ==
    IF ~Has(somef_data, "download_url") THEN Ok(DownloadInitial(file_name))
    ELSE
      LET download_entries == somef_data.d.download_url
      IN  IF ~IsList(download_entries) THEN Ok(DownloadInitial(file_name))
          ELSE
            LET found == DownloadLoop(download_entries.items, 1)
            IN  IF found.raised THEN Raise
                ELSE IF ~Truthy(found.val.url) THEN Ok(DownloadInitial(file_name))
                ELSE
                  LET download_version == extract_version_from_download_url(found.val.url)
                  IN  IF download_version.raised THEN Raise
                      ELSE IF ~Truthy(download_version.val) THEN Ok(DownloadInitial(file_name))
                      ELSE
                        LET latest_version == get_latest_release_version(somef_data)
                        IN  IF latest_version.raised THEN Raise
                            ELSE IF ~Truthy(latest_version.val)
                            THEN Ok(DownloadInitial(file_name))
                            ELSE IF download_version.val # latest_version.val
                            THEN Ok([has_pitfall |-> TRUE, file_name |-> file_name,
                                     download_url |-> found.val.url,
                                     download_version |-> download_version.val,
                                     latest_release_version |-> latest_version.val,
                                     source |-> found.val.source])
                            ELSE Ok(DownloadInitial(file_name))

\* ------------------------------------------------------------------------
\* detect_pitfalls_main.py: the detector table and the corpus summary
\* ------------------------------------------------------------------------
\* pitfall_counts = [0] * 27
NumRules == 27

\* pitfall_detectors: the rule code of each detector, in table order
pitfall_detectors ==
    <<"P001", "P002", "W003", "W004", "P005", "P006", "P007", "P008", "W010",
      "P011", "W012", "P013", "W014", "W015", "P016", "P017", "P018", "P019",
      "P020", "W021", "P022", "P023", "P024", "P025", "P026", "P027", "P028">>

\* A summary whose third and fourth entries have changed places
MisorderedSummaryCodes ==
    [i \in 1..Len(pitfall_detectors) |->
        pitfall_detectors[IF i = 3 THEN 4 ELSE IF i = 4 THEN 3 ELSE i]]

\* results["pitfalls & warnings"]: the code of each summary entry, under the
\* key "pitfall_code" or "warning_code"
summary_codes ==
    <<"P001", "P002", "W003", "W004", "P005", "P006", "P007", "P008", "W010",
      "P011", "W012", "P013", "W014", "W015", "P016", "P017", "P018", "P019",
      "P020", "W021", "P022", "P023", "P024", "P025", "P026", "P027", "P028">>

warning_codes == {"W003", "W004", "W010", "W012", "W014", "W015", "W021"}

\* src/detect_pitfalls_main.py, the older main: the codes of its detector
\* table and of the entries of its results["pitfalls"]
legacy_pitfall_detectors ==
    <<"P001", "P002", "P003", "P004", "P005", "P006", "P007", "P008", "P011",
      "P012", "P013", "P014", "P015", "P017", "P019", "P020", "P021", "P022",
      "P023", "P024", "P025", "P026", "P027", "P028", "P030", "P031", "P032">>

legacy_summary_codes ==
    <<"P001", "P002", "P003", "P004", "P005", "P006", "P007", "P008", "P011",
      "P012", "P013", "P014", "P015", "P017", "P019", "P020", "P021", "P022",
      "P023", "P024", "P025", "P026", "P027", "P028", "P030", "P031", "P032">>

\* The results dict as detect_all_pitfalls builds it; a percentage is kept
\* in hundredths (3333 is 33.33)
InitialResults ==
    [summary |-> [total_repositories_analyzed |-> 0,
                  repositories_with_target_languages |-> 0,
                  individual_jsonld_files_created |-> 0,
                  total_pitfalls_detected |-> 0,
                  total_warnings_detected |-> 0],
     entries |-> [i \in 1..Len(summary_codes) |->
                    [code |-> summary_codes[i], count |-> 0, percentage |-> 0,
                     languages |-> [l \in {} |-> 0]]]]

\* A percentage cut to two decimals instead of rounded
TruncatePercentage(count, total) == (count * 10000) \div total

\* round(x, 2) of x = (count / total_repos) * 100, in hundredths: the nearest
\* hundredth. x lies halfway between two hundredths only when 32 divides
\* total_repos, which no corpus of the model reaches; the even one is taken
RoundPercentage(count, total) ==
    LET n == count * 10000
        q == n \div total
        r == n % total
    IN  IF 2 * r < total THEN q
        ELSE IF 2 * r > total THEN q + 1
        ELSE IF q % 2 = 0 THEN q ELSE q + 1

\* A detector whose source file is not part of the model: what it returns on a
\* record is an input, the outcome the record carries for it
ExternalDetector(code, outcome, file_name) ==
    IF outcome = "raise" THEN Raise
    ELSE IF code \in warning_codes
    THEN Ok([has_warning |-> outcome = "hit", file_name |-> file_name])
    ELSE Ok([has_pitfall |-> outcome = "hit", file_name |-> file_name])

\* detector_func(somef_data, json_file.name) for the detector at index i
Detector(i, file, file_name) ==
    LET code == pitfall_detectors[i]
    IN  CASE code = "P008" -> detect_local_file_license_pitfall(file.data, file_name)
          [] code = "P011" ->
               detect_citation_missing_reference_publication_pitfall(file.data, file_name)
          [] code = "W014" -> detect_identifier_name_warning(file.data, file_name)
          [] code = "P018" -> detect_issue_tracker_format_pitfall(file.data, file_name)
          [] code = "P019" -> detect_outdated_download_url_pitfall(file.data, file_name)
          [] OTHER         -> ExternalDetector(code, file.ext[i], file_name)

\* pitfall_result["pitfall_code"] = pitfall_code
WithCode(pitfall_result, pitfall_code) ==
    [k \in DOMAIN pitfall_result \cup {"pitfall_code"} |->
        IF k = "pitfall_code" THEN pitfall_code ELSE pitfall_result[k]]

\* has_pitfall or has_warning of a finding
HasIssue(pitfall_result) ==
    Get(pitfall_result, "has_pitfall", FALSE) \/ Get(pitfall_result, "has_warning", FALSE)

\* Language counts that keep only the languages of the last repository
KeepLastLanguages(counts, repo_languages) ==
    [l \in {repo_languages[k] : k \in 1..Len(repo_languages)} |-> 1]

\* The language counts of one summary entry after a triggered finding of a
\* repository with these languages
AddLanguages(counts, repo_languages) ==
    LET langs == {repo_languages[k] : k \in 1..Len(repo_languages)}
    IN  [l \in DOMAIN counts \cup langs |->
            IF l \in langs
            THEN (IF l \in DOMAIN counts THEN counts[l] + 1 ELSE 1)
            ELSE counts[l]]

\* A fold that also writes the count of the entry while the files are processed
CountLanguagesAndCount(res, i, repo_languages) ==
    [res EXCEPT !.entries[i].count = @ + 1,
                !.entries[i].languages =
                    IF repo_languages # <<>> THEN AddLanguages(@, repo_languages) ELSE @]

\* What a triggered finding of rule i changes in results while the files are
\* processed: the language counts of the entry, when the repository has
\* target languages
CountLanguages(res, i, repo_languages) ==
    IF repo_languages # <<>>
    THEN [res EXCEPT !.entries[i].languages = AddLanguages(@, repo_languages)]
    ELSE res

\* A rule loop that a raising detector ends
BreakAfterDetectorError(i) == NumRules + 1

\* The index the rule loop goes on with after a detector raised: `continue`
AfterDetectorError(i) == i + 1

\* A file loop that a file failing to load ends
AbortAfterFileError == "crashed"

\* Where the file loop goes on after a file failed to load: the end of the
\* loop body, hence the next file
AfterFileError == "loop"

\* ------------------------------------------------------------------------
\* Input files of the corpus
\* ------------------------------------------------------------------------

\* An observation {technique, source, result: {value}}
Obs(technique, source, value) ==
    Dict([technique |-> Str(technique), source |-> Str(source),
          result |-> Dict([value |-> value])])

\* The outcomes of the detectors whose source is not modelled: "hit" for the
\* indices of hits, "raise" for those of raises, "clear" for the others
Outcomes(hits, raises) ==
    [i \in 1..NumRules |-> IF i \in raises THEN "raise"
                           ELSE IF i \in hits THEN "hit" ELSE "clear"]

\* Observations by their origin: read from codemeta.json by the code parser,
\* read from the README, found by file exploration (no source)
FromCodemetaJson(value) == Obs(Chars("code_parser"), Chars("repo/codemeta.json"), value)
FromReadme(value)       == Obs(Chars("file_exploration"), Chars("repo/README.md"), value)
Explored(value)         == Obs(Chars("file_exploration"), <<>>, value)

\* A file that json.load cannot parse, and one that open() cannot read
InvalidJsonFile == [json |-> "invalid", data |-> EmptyDict, ext |-> Outcomes({}, {})]
UnreadableFile  == [json |-> "unreadable", data |-> EmptyDict, ext |-> Outcomes({}, {})]

\* A record without a defect: Python, a named license
CleanFile ==
    [json |-> "ok",
     data |-> Dict([programming_languages |->
                        ListVal(<<Explored(Str(Chars("Python")))>>),
                    license |->
                        ListVal(<<FromCodemetaJson(Str(Chars("MIT")))>>),
                    issues_url |->
                        ListVal(<<FromCodemetaJson(
                                    Str(Chars("https://github.com/a/b/issues")))>>)]),
     ext  |-> Outcomes({}, {})]

\* A license that names a local file; python3, cpp and Go; W003 hits
LocalLicenseFile ==
    [json |-> "ok",
     data |-> Dict([programming_languages |->
                        ListVal(<<Explored(Str(Chars("python3"))),
                                  Explored(Str(Chars("cpp"))),
                                  Explored(Str(Chars("Go")))>>),
                    license |->
                        ListVal(<<FromCodemetaJson(Str(Chars("./LICENSE.md")))>>)]),
     ext  |-> Outcomes({3}, {})]

\* A license value that is a number and a download_url observation that is
\* a bare string; R; a codemeta identifier that is a name while the README has
\* a DOI; P001 and P028 hit
MalformedLicenseFile ==
    [json |-> "ok",
     data |-> Dict([programming_languages |->
                        ListVal(<<Explored(Str(Chars("R")))>>),
                    license |->
                        ListVal(<<FromCodemetaJson(IntVal(<<"5">>))>>),
                    identifier |->
                        ListVal(<<FromCodemetaJson(Str(Chars("mytool"))),
                                  FromReadme(
                                    Str(Chars("https://doi.org/10.5281/zenodo.1")))>>),
                    download_url |->
                        ListVal(<<Str(Chars("https://x.org/download/v1.2.3/tool.jar"))>>)]),
     ext  |-> Outcomes({1, 27}, {})]

\* A programming language value that is a number; a local license; P001 hits
MalformedLanguageFile ==
    [json |-> "ok",
     data |-> Dict([programming_languages |->
                        ListVal(<<Explored(Str(Chars("Python"))),
                                  Explored(IntVal(<<"3">>))>>),
                    license |->
                        ListVal(<<FromCodemetaJson(Str(Chars("./LICENSE.md")))>>)]),
     ext  |-> Outcomes({1}, {})]

\* A record with no property of the modelled rules; P002 and W021 hit
EmptyRecordFile ==
    [json |-> "ok", data |-> EmptyDict, ext |-> Outcomes({2, 20}, {})]

\* An outdated download URL and an issue tracker URL with a leading blank; no
\* target language
OutdatedDownloadFile ==
    [json |-> "ok",
     data |-> Dict([programming_languages |->
                        ListVal(<<Explored(Str(Chars("Go")))>>),
                    download_url |->
                        ListVal(<<FromCodemetaJson(
                                    Str(Chars("https://x.org/download/v1.2.3/tool.jar")))>>),
                    releases |->
                        ListVal(<<Dict([result |-> Dict([tag |-> Str(Chars("v1.3.0"))])])>>),
                    issues_url |->
                        ListVal(<<FromCodemetaJson(
                                    Str(Chars(" https://github.com/a/b/issues")))>>)]),
     ext  |-> Outcomes({}, {})]

FileKinds == <<InvalidJsonFile, UnreadableFile, CleanFile, LocalLicenseFile,
               MalformedLicenseFile, MalformedLanguageFile, EmptyRecordFile,
               OutdatedDownloadFile>>

\* The corpora: up to MaxFiles files. The names of the files are 1..n, and
\* since glob yields them in any order, the kinds are taken in ascending order
Corpora ==
    UNION {{c \in [1..n -> 1..Len(FileKinds)] : \A i \in 1..(n - 1) : c[i] <= c[i + 1]} :
             n \in 0..MaxFiles}

\* ------------------------------------------------------------------------
\* detect_all_pitfalls
\* ------------------------------------------------------------------------
VARIABLES
    corpus,                        \* file name -> index of its kind in FileKinds
    pending,                       \* the files glob has not yielded yet
    pc,                            \* "loop", "load", "rules", "jsonld", "write", "done";
                                   \* "crashed" after an exception nothing catches
    json_file,                     \* the file of this iteration (0 before the first)
    idx,                           \* the index of the next detector
    languages,                     \* the languages of the record
    repo_pitfall_results,          \* the findings of the record
    calls,                         \* the codes of the detectors invoked on json_file
    total_pitfalls, total_warnings, total_repos,
    repos_with_target_languages, jsonld_files_created,
    pitfall_counts,
    results,                       \* the summary document being built
    pitfalls_output_dir,           \* document name -> the checkIds of the saved document
    output_file                    \* the documents written to the summary file

\* One call of a detector on a record
VARIABLES
    rule_input,                    \* the record the detector is called on
    rule_called,                   \* the code of the detector called, "none" before the call
    rule_outcome                   \* the outcomes of the calls made: at most one

\* PitfallAnalyzer.analyze_all_repositories
VARIABLES
    pa_pc,                         \* "idle", "loop", "summary", "done"; "crashed" after
                                   \* an exception nothing catches
    pa_repositories,               \* the number of repositories still to analyse
    detailed_results,              \* results: the analysis of each repository so far
    license_stats, codemeta_stats, \* the counters
    pa_summary                     \* the summaries returned: at most one

pipeline_vars ==
    <<corpus, pending, pc, json_file, idx, languages, repo_pitfall_results, calls,
      total_pitfalls, total_warnings, total_repos, repos_with_target_languages,
      jsonld_files_created, pitfall_counts, results, pitfalls_output_dir, output_file>>

rule_vars == <<rule_input, rule_called, rule_outcome>>

analyzer_vars ==
    <<pa_pc, pa_repositories, detailed_results, license_stats, codemeta_stats, pa_summary>>

vars == <<pipeline_vars, rule_vars, analyzer_vars>>

\* No detector call is under way
RulesIdle ==
    /\ rule_input = EmptyDict
    /\ rule_called = "none"
    /\ rule_outcome = <<>>

\* The counters as analyze_all_repositories creates them
InitialLicenseStats ==
    [repositories_with_license |-> 0,
     repositories_with_license_placeholders |-> 0,
     repositories_with_license_copyright_only |-> 0]

InitialCodemetaStats ==
    [repositories_with_codemeta |-> 0,
     repositories_with_software_requirements |-> 0,
     repositories_with_software_requirements_without_versions |-> 0,
     repositories_with_software_requirements_with_local_file_urls |-> 0,
     repositories_with_software_requirements_with_homepage_urls |-> 0,
     repositories_with_readme_property |-> 0,
     repositories_with_readme_pointing_to_non_readme |-> 0,
     repositories_with_license_property |-> 0,
     repositories_with_license_pointing_to_local_file |-> 0,
     repositories_with_software_version |-> 0,
     repositories_with_software_version_as_branch |-> 0,
     repositories_with_programming_languages |-> 0,
     repositories_with_programming_languages_without_versions |-> 0,
     repositories_with_identifier |-> 0,
     repositories_with_empty_identifier |-> 0,
     repositories_with_keywords |-> 0,
     repositories_with_keywords_as_string |-> 0,
     repositories_with_code_repository |-> 0,
     repositories_with_code_repository_pointing_to_homepage |-> 0]

\* No PitfallAnalyzer run is under way
AnalyzerIdle ==
    /\ pa_pc = "idle"
    /\ pa_repositories = 0
    /\ detailed_results = <<>>
    /\ license_stats = InitialLicenseStats
    /\ codemeta_stats = InitialCodemetaStats
    /\ pa_summary = <<>>

File(f) == FileKinds[corpus[f]]

\* detect_all_pitfalls before its file loop, on a corpus
PipelineInit(c, start) ==
    /\ corpus = c
    /\ pending = DOMAIN corpus
    /\ pc = start
    /\ json_file = 0
    /\ idx = 1
    /\ languages = <<>>
    /\ repo_pitfall_results = <<>>
    /\ calls = <<>>
    /\ total_pitfalls = 0
    /\ total_warnings = 0
    /\ total_repos = 0
    /\ repos_with_target_languages = 0
    /\ jsonld_files_created = 0
    /\ pitfall_counts = [i \in 1..NumRules |-> 0]
    /\ results = InitialResults
    /\ pitfalls_output_dir = [f \in {} |-> <<>>]
    /\ output_file = <<>>

\* No run of detect_all_pitfalls is under way
PipelineIdle == PipelineInit(<<>>, "idle")

Init ==
    /\ \E c \in Corpora : PipelineInit(c, "loop")
    /\ RulesIdle
    /\ AnalyzerIdle

\* A file loop that counts a file only when it can be parsed
NextFileCountingParsed ==
    /\ pc = "loop"
    /\ pending # {}
    /\ \E f \in pending :
          /\ json_file' = f
          /\ pending' = pending \ {f}
          /\ total_repos' = IF File(f).json = "ok" THEN total_repos + 1 ELSE total_repos
    /\ calls' = <<>>
    /\ pc' = "load"
    /\ UNCHANGED <<corpus, idx, languages, repo_pitfall_results, total_pitfalls,
                   total_warnings, repos_with_target_languages, jsonld_files_created,
                   pitfall_counts, results, pitfalls_output_dir, output_file>>
    /\ UNCHANGED <<rule_vars, analyzer_vars>>

\* for json_file in directory.glob("*.json"): total_repos += 1
NextFile ==
    /\ pc = "loop"
    /\ pending # {}
    /\ \E f \in pending :
          /\ json_file' = f
          /\ pending' = pending \ {f}
    /\ total_repos' = total_repos + 1
    /\ calls' = <<>>
    /\ pc' = "load"
    /\ UNCHANGED <<corpus, idx, languages, repo_pitfall_results, total_pitfalls,
                   total_warnings, repos_with_target_languages, jsonld_files_created,
                   pitfall_counts, results, pitfalls_output_dir, output_file>>
    /\ UNCHANGED <<rule_vars, analyzer_vars>>

\* json.load, extract_programming_languages and repo_pitfall_results = [];
\* an exception of any of them ends the iteration
LoadFile ==
    /\ pc = "load"
    /\ LET file  == File(json_file)
           langs == extract_programming_languages(file.data)
       IN  IF file.json # "ok" \/ langs.raised
           THEN /\ pc' = AfterFileError
                /\ UNCHANGED <<idx, languages, repo_pitfall_results,
                               repos_with_target_languages>>
           ELSE /\ languages' = langs.val
                /\ repos_with_target_languages' =
                       IF langs.val # <<>> THEN repos_with_target_languages + 1
                       ELSE repos_with_target_languages
                /\ repo_pitfall_results' = <<>>
                /\ idx' = 1
                /\ pc' = "rules"
    /\ UNCHANGED <<corpus, pending, json_file, calls, total_pitfalls, total_warnings,
                   total_repos, jsonld_files_created, pitfall_counts, results,
                   pitfalls_output_dir, output_file>>
    /\ UNCHANGED <<rule_vars, analyzer_vars>>

\* One iteration of `for idx, (detector_func, pitfall_code) in enumerate(...)`
RunDetector ==
    /\ pc = "rules"
    /\ idx <= NumRules
    /\ LET pitfall_code == pitfall_detectors[idx]
           outcome      == Detector(idx, File(json_file), json_file)
       IN  /\ calls' = Append(calls, pitfall_code)
           /\ IF outcome.raised
              THEN /\ idx' = AfterDetectorError(idx)
                   /\ UNCHANGED <<repo_pitfall_results, total_pitfalls, total_warnings,
                                  pitfall_counts, results>>
              ELSE LET pitfall_result == WithCode(outcome.val, pitfall_code)
                       has_pitfall    == Get(pitfall_result, "has_pitfall", FALSE)
                       has_warning    == Get(pitfall_result, "has_warning", FALSE)
                       has_issue      == has_pitfall \/ has_warning
                   IN  /\ idx' = idx + 1
                       /\ repo_pitfall_results' = Append(repo_pitfall_results, pitfall_result)
                       /\ pitfall_counts' =
                              IF has_issue THEN [pitfall_counts EXCEPT ![idx] = @ + 1]
                              ELSE pitfall_counts
                       /\ total_pitfalls' =
                              IF has_issue /\ has_pitfall THEN total_pitfalls + 1
                              ELSE total_pitfalls
                       /\ total_warnings' =
                              IF has_issue /\ has_warning THEN total_warnings + 1
                              ELSE total_warnings
                       /\ results' =
                              IF has_issue THEN CountLanguages(results, idx, languages)
                              ELSE results
    /\ pc' = IF idx' > NumRules THEN "jsonld" ELSE "rules"
    /\ UNCHANGED <<corpus, pending, json_file, languages, total_repos,
                   repos_with_target_languages, jsonld_files_created, pitfalls_output_dir,
                   output_file>>
    /\ UNCHANGED <<rule_vars, analyzer_vars>>

\* A document with a check for every finding
AllCheckIds(pitfall_results) ==
    [k \in 1..Len(pitfall_results) |-> Get(pitfall_results[k], "pitfall_code", "Unknown")]

\* The checkIds of the document create_pitfall_jsonld builds
CheckIds(pitfall_results) ==
    SelectSeq([k \in 1..Len(pitfall_results) |->
                  IF HasIssue(pitfall_results[k])
                  THEN Get(pitfall_results[k], "pitfall_code", "Unknown") ELSE "-"],
              LAMBDA c : c # "-")

\* json_file.name of file f: repo1.json, repo2.v2.json, repo3.json, ...
FileName(f) ==
    Chars("repo") \o <<DecimalDigits[f + 1]>>
        \o (IF f % 2 = 0 THEN Chars(".v2") ELSE <<>>) \o Chars(".json")

\* Path(file_name).stem of a name without directories: the name without its
\* last suffix; a dot that starts or ends the name starts no suffix
Stem(file_name) ==
    LET dots == {i \in 1..Len(file_name) : file_name[i] = "."}
    IN  IF dots = {} THEN file_name
        ELSE LET last == MaxPos(dots)
             IN  IF last > 1 /\ last < Len(file_name)
                 THEN SubSeq(file_name, 1, last - 1) ELSE file_name

\* save_individual_pitfall_jsonld: the name of the document of a record
JsonldFileName(file_name) == Stem(file_name) \o Chars("_pitfalls.jsonld")

\* A run that saves a document for every record
AlwaysAnyIssue(pitfall_results) == TRUE

\* has_any_issue: some finding of the record triggered
HasAnyIssue(pitfall_results) ==
    \E k \in 1..Len(pitfall_results) : HasIssue(pitfall_results[k])

\* The try block after the rule loop: the per-repository document is saved
\* when a finding triggered; nothing is saved when create_pitfall_jsonld
\* raises or when save_individual_pitfall_jsonld cannot write the file and
\* returns None
SaveJsonld ==
    /\ pc = "jsonld"
    /\ IF HasAnyIssue(repo_pitfall_results)
       THEN \/ LET name == JsonldFileName(FileName(json_file))
               IN  /\ pitfalls_output_dir' =
                          [d \in DOMAIN pitfalls_output_dir \cup {name} |->
                              IF d = name THEN CheckIds(repo_pitfall_results)
                              ELSE pitfalls_output_dir[d]]
                   /\ jsonld_files_created' = jsonld_files_created + 1
            \/ UNCHANGED <<pitfalls_output_dir, jsonld_files_created>>
       ELSE UNCHANGED <<pitfalls_output_dir, jsonld_files_created>>
    /\ pc' = "loop"
    /\ UNCHANGED <<corpus, pending, json_file, idx, languages, repo_pitfall_results, calls,
                   total_pitfalls, total_warnings, total_repos, repos_with_target_languages,
                   pitfall_counts, results, output_file>>
    /\ UNCHANGED <<rule_vars, analyzer_vars>>

\* round((count / total_repos) * 100, 2); the division raises
\* ZeroDivisionError when total_repos is 0
Percentage(count, total) ==
    IF total = 0 THEN Raise ELSE Ok(RoundPercentage(count, total))

\* A finalisation without the guard on total_repos
UnguardedPercentage(old, count, total) == Percentage(count, total)

\* The percentage of one summary entry after the last loop: written only
\* `if total_repos > 0`, else left as it is
FinalPercentage(old, count, total) ==
    IF total > 0 THEN Percentage(count, total) ELSE Ok(old)

\* After the file loop: the summary totals, and count and percentage of
\* every entry
Finalize ==
    /\ pc = "loop"
    /\ pending = {}
    /\ LET new_summary ==
               [total_repositories_analyzed |-> total_repos,
                repositories_with_target_languages |-> repos_with_target_languages,
                individual_jsonld_files_created |-> jsonld_files_created,
                total_pitfalls_detected |-> total_pitfalls,
                total_warnings_detected |-> total_warnings]
           percentage(i) ==
               FinalPercentage(results.entries[i].percentage, pitfall_counts[i], total_repos)
       IN  IF \E i \in 1..NumRules : percentage(i).raised
           THEN \* the exception leaves detect_all_pitfalls: nothing is written
                /\ results' = [summary |-> new_summary,
                               entries |-> [results.entries EXCEPT
                                              ![1].count = pitfall_counts[1]]]
                /\ pc' = "crashed"
           ELSE /\ results' =
                      [summary |-> new_summary,
                       entries |-> [i \in 1..NumRules |->
                                      [results.entries[i] EXCEPT
                                          !.count = pitfall_counts[i],
                                          !.percentage = percentage(i).val]]]
                /\ pc' = "write"
    /\ UNCHANGED <<corpus, pending, json_file, idx, languages, repo_pitfall_results, calls,
                   total_pitfalls, total_warnings, total_repos, repos_with_target_languages,
                   jsonld_files_created, pitfall_counts, pitfalls_output_dir, output_file>>
    /\ UNCHANGED <<rule_vars, analyzer_vars>>

\* json.dump(results, f)
WriteSummary ==
    /\ pc = "write"
    /\ output_file' = Append(output_file, results)
    /\ pc' = "done"
    /\ UNCHANGED <<corpus, pending, json_file, idx, languages, repo_pitfall_results, calls,
                   total_pitfalls, total_warnings, total_repos, repos_with_target_languages,
                   jsonld_files_created, pitfall_counts, results, pitfalls_output_dir>>
    /\ UNCHANGED <<rule_vars, analyzer_vars>>

Next ==
    \/ NextFile
    \/ LoadFile
    \/ RunDetector
    \/ SaveJsonld
    \/ Finalize
    \/ WriteSummary

Spec == Init /\ [][Next]_vars

\* ------------------------------------------------------------------------
\* Single detector calls: the records
\* ------------------------------------------------------------------------
MaxEntries == 2

\* The property each modelled detector returns early without
RuleProperty ==
    [P008 |-> "license", P011 |-> "reference_publication", W014 |-> "identifier",
     P018 |-> "issues_url", P019 |-> "download_url"]

\* Two string values for each property: the first makes the rule of the
\* property trigger where a codemeta observation holds it
StringValues ==
    [license               |-> <<Chars("./LICENSE.md"), Chars("MIT")>>,
     identifier            |-> <<Chars("mytool"), Chars("https://doi.org/10.5281/zenodo.1")>>,
     download_url          |-> <<Chars("https://x.org/download/v1.2.3/tool.jar"),
                                 Chars("https://github.com/a/b/issues")>>,
     issues_url            |-> <<Chars(" https://github.com/a/b/issues"),
                                 Chars("https://github.com/a/b/issues")>>,
     reference_publication |-> <<Chars("A paper"), Chars("https://doi.org/10.5281/zenodo.1")>>]

TargetProperties == DOMAIN StringValues

\* Values of a type other than str: a number, a list and an object
WrongTypedValues(property) ==
    {IntVal(<<"5">>),
     ListVal(<<Str(StringValues[property][1])>>),
     Dict([value |-> Str(StringValues[property][1])])}

ObservationValues(property) ==
    {Str(StringValues[property][1]), Str(StringValues[property][2]), NoneVal}
        \cup WrongTypedValues(property)

\* technique and source of an observation
Origins ==
    {<<Chars("code_parser"), Chars("repo/codemeta.json")>>,
     <<Chars("file_exploration"), Chars("repo/README.md")>>,
     <<Chars("code_parser"), Chars("repo/CITATION.cff")>>}

\* The entries of a property: observations, entries that are no object, an
\* observation without result and one whose result is no object
Entries(property) ==
    {Obs(o[1], o[2], v) : o \in Origins, v \in ObservationValues(property)}
        \cup {Str(StringValues[property][1]), IntVal(<<"5">>), NoneVal}
        \cup {Dict([technique |-> Str(Chars("code_parser")),
                    source    |-> Str(Chars("repo/codemeta.json"))]),
              Dict([technique |-> Str(Chars("code_parser")),
                    source    |-> Str(Chars("repo/codemeta.json")),
                    result    |-> Str(StringValues[property][1])])}

\* The values of a property that are no list
NonListValues(property) == {Str(StringValues[property][1]), NoneVal, EmptyDict}

\* What a record holds besides the property: a release newer than the
\* download URL, a title read from CITATION.cff
Companions ==
    [license               |-> [k \in {} |-> NoneVal],
     identifier            |-> [k \in {} |-> NoneVal],
     issues_url            |-> [k \in {} |-> NoneVal],
     download_url          |->
         [releases |-> ListVal(<<Dict([result |-> Dict([tag |-> Str(Chars("v1.3.0"))])])>>)],
     reference_publication |->
         [title |-> ListVal(<<Obs(Chars("file_exploration"), Chars("repo/CITATION.cff"),
                                  Str(Chars("mytool")))>>)]]

RecordWith(property, value) ==
    Dict([k \in {property} \cup DOMAIN Companions[property] |->
             IF k = property THEN value ELSE Companions[property][k]])

\* rule_input is one of the records: the empty record, or a record with one
\* property whose value is a list of up to MaxEntries entries or no list
InputRecord ==
    \/ rule_input = EmptyDict
    \/ \E property \in TargetProperties :
          \/ \E n \in 0..MaxEntries : \E s \in [1..n -> Entries(property)] :
                rule_input = RecordWith(property, ListVal(s))
          \/ \E value \in NonListValues(property) :
                rule_input = RecordWith(property, value)

\* ------------------------------------------------------------------------
\* Single detector calls: the calls
\* ------------------------------------------------------------------------
InitRules ==
    /\ PipelineIdle
    /\ AnalyzerIdle
    /\ InputRecord
    /\ rule_called = "none"
    /\ rule_outcome = <<>>

\* detector(somef_data, file_name) returns or raises
Call(code, outcome) ==
    /\ rule_called = "none"
    /\ rule_called' = code
    /\ rule_outcome' = Append(rule_outcome, outcome)
    /\ UNCHANGED <<rule_input, pipeline_vars, analyzer_vars>>

CallLocalFileLicense ==
    Call("P008", detect_local_file_license_pitfall(rule_input, 0))

CallCitationMissingReference ==
    Call("P011", detect_citation_missing_reference_publication_pitfall(rule_input, 0))

CallIdentifierName ==
    Call("W014", detect_identifier_name_warning(rule_input, 0))

CallIssueTrackerFormat ==
    Call("P018", detect_issue_tracker_format_pitfall(rule_input, 0))

CallOutdatedDownloadUrl ==
    Call("P019", detect_outdated_download_url_pitfall(rule_input, 0))

NextRules ==
    \/ CallLocalFileLicense
    \/ CallCitationMissingReference
    \/ CallIdentifierName
    \/ CallIssueTrackerFormat
    \/ CallOutdatedDownloadUrl

SpecRules == InitRules /\ [][NextRules]_vars

\* ------------------------------------------------------------------------
\* What a corpus determines, whatever the order of its files
\* ------------------------------------------------------------------------
Files == DOMAIN corpus

\* What rule i does on a file: "hit", "clear" or "raise"
RuleEffect(i, file) ==
    LET outcome == Detector(i, file, 0)
    IN  IF outcome.raised THEN "raise"
        ELSE IF HasIssue(outcome.val) THEN "hit" ELSE "clear"

\* The effects of rules 1..i on a file
RECURSIVE RuleEffects(_, _)
RuleEffects(i, file) ==
    IF i = 0 THEN <<>> ELSE Append(RuleEffects(i - 1, file), RuleEffect(i, file))

\* What the first k kinds of file do: whether the record reaches the rule
\* loop, its target languages, and the effect of every rule on it
RECURSIVE KindEffects(_)
KindEffects(k) ==
    IF k = 0 THEN <<>>
    ELSE LET file  == FileKinds[k]
             langs == extract_programming_languages(file.data)
         IN  Append(KindEffects(k - 1),
                    [loaded    |-> file.json = "ok" /\ ~langs.raised,
                     languages |-> IF langs.raised THEN {}
                                   ELSE {langs.val[n] : n \in 1..Len(langs.val)},
                     effects   |-> RuleEffects(NumRules, file)])

KindTable == KindEffects(Len(FileKinds))

\* The files whose record reaches the rule loop
Loaded(f) == KindTable[corpus[f]].loaded

\* The target languages of a loaded file
LanguagesOf(f) == KindTable[corpus[f]].languages

\* Rule i returns a triggered finding on file f
Triggers(i, f) == KindTable[corpus[f]].effects[i] = "hit"

\* Rule i raises on file f
Raises(i, f) == KindTable[corpus[f]].effects[i] = "raise"

\* The files on which rule i has been run so far
Passed(i) ==
    {f \in Files \ pending :
        /\ Loaded(f)
        /\ \/ f # json_file
           \/ pc \notin {"load", "rules"}
           \/ pc = "rules" /\ idx > i}

\* The language counts of rule i over a set of files
LanguageCounts(i, S) ==
    LET hits  == {f \in S : Triggers(i, f)}
        langs == UNION {LanguagesOf(f) : f \in hits}
    IN  [l \in langs |-> Cardinality({f \in hits : l \in LanguagesOf(f)})]

\* ------------------------------------------------------------------------
\* C1: every loaded record gets one finding per rule of the table, in table
\* order, whatever the rule invocation did. (Refuted: a rule that raises
\* leaves no finding.)
\* ------------------------------------------------------------------------
C1_OneFindingPerRule ==
    pc = "jsonld" =>
        /\ Len(repo_pitfall_results) = NumRules
        /\ \A i \in 1..Len(repo_pitfall_results) :
              repo_pitfall_results[i].pitfall_code = pitfall_detectors[i]

\* ------------------------------------------------------------------------
\* C2: a rule that raises on a record is the only thing skipped. The rules
\* invoked on the current record are the table up to the loop index, the
\* whole table once the loop has ended; a record has a finding for exactly
\* the rules that did not raise; the count and the language counts of every
\* rule are those of the files the rule has been run on, whatever other rules
\* did on them; and the file loop is never left by an exception.
\* ------------------------------------------------------------------------
C2_RaisingRuleSkipsOnlyItself ==
    /\ pc # "crashed"
    /\ pc = "rules" => calls = SubSeq(pitfall_detectors, 1, idx - 1)
    /\ pc = "jsonld" =>
          /\ calls = pitfall_detectors
          /\ [k \in 1..Len(repo_pitfall_results) |-> repo_pitfall_results[k].pitfall_code]
                = SelectSeq(pitfall_detectors,
                            LAMBDA c : \E i \in 1..NumRules :
                                          /\ pitfall_detectors[i] = c
                                          /\ ~Raises(i, json_file))
    /\ \A i \in 1..NumRules :
          /\ pitfall_counts[i] = Cardinality({f \in Passed(i) : Triggers(i, f)})
          /\ results.entries[i].languages = LanguageCounts(i, Passed(i))

\* A rule raised on a file, a later rule triggered on it, and the loop is at
\* the rules of another file
C2_Witness ==
    /\ pc = "rules"
    /\ \E f \in Files \ (pending \cup {json_file}) :
          \E i, j \in 1..NumRules :
              /\ i < j
              /\ Raises(i, f)
              /\ Triggers(j, f)
              /\ pitfall_counts[j] >= 1

\* ------------------------------------------------------------------------
\* C3: a file that cannot be read or is not JSON is skipped. The step that
\* fails to load it changes no count, no language count, no total and no
\* document, and goes back to the file loop; no rule runs on it; and when the
\* run is over every file has been taken, the rules have been counted over
\* every loaded file, and the summary has been written.
\* ------------------------------------------------------------------------
C3_BadFileIsSkipped ==
    /\ [][(pc = "load" /\ File(json_file).json # "ok") =>
             /\ pc' = "loop"
             /\ pending' = pending
             /\ <<pitfall_counts, results, total_pitfalls, total_warnings,
                  repos_with_target_languages, jsonld_files_created,
                  pitfalls_output_dir>>' =
                <<pitfall_counts, results, total_pitfalls, total_warnings,
                  repos_with_target_languages, jsonld_files_created,
                  pitfalls_output_dir>>]_vars
    /\ [](pc \in {"rules", "jsonld"} => File(json_file).json = "ok")
    /\ [](\A f \in Files : File(f).json # "ok" =>
               JsonldFileName(FileName(f)) \notin DOMAIN pitfalls_output_dir)
    /\ [](pc = "done" =>
             /\ pending = {}
             /\ output_file = <<results>>
             /\ \A i \in 1..NumRules :
                   output_file[1].entries[i].count =
                       Cardinality({f \in Files : Loaded(f) /\ Triggers(i, f)}))

\* A file could not be loaded, and the rule loop has since run over a file
\* taken after it, on which a rule triggered
C3_Witness ==
    /\ pc = "jsonld"
    /\ \E f \in Files \ (pending \cup {json_file}) : File(f).json # "ok"
    /\ \E i \in 1..NumRules : Triggers(i, json_file) /\ pitfall_counts[i] >= 1

\* ------------------------------------------------------------------------
\* C4: on every record that parses as JSON the whole rule table is evaluated,
\* whatever the shape of a property value. (Refuted: a programming_languages
\* value that is not a string ends the iteration before the first rule.)
\* ------------------------------------------------------------------------
C4_WholeTableEvaluated ==
    (pc = "loop" /\ json_file # 0 /\ File(json_file).json = "ok") =>
        calls = pitfall_detectors

\* ------------------------------------------------------------------------
\* C7: the aggregation does not depend on the order of the files. Between
\* two files and after the last one, every running total is a function of
\* the set of files taken so far: the per-rule counts, the per-rule language
\* counts, the repository totals and the pitfall and warning totals; and the
\* finalized summary holds these values for the whole corpus.
\* ------------------------------------------------------------------------
Taken == Files \ pending

C7_OrderIndependent ==
    pc \in {"loop", "write", "done"} =>
        LET loaded == {f \in Taken : Loaded(f)}
            hits(S) == {<<i, f>> \in S \X loaded : Triggers(i, f)}
            warnings == {i \in 1..NumRules : pitfall_detectors[i] \in warning_codes}
        IN  /\ total_repos = Cardinality(Taken)
            /\ repos_with_target_languages =
                   Cardinality({f \in loaded : LanguagesOf(f) # {}})
            /\ total_pitfalls = Cardinality(hits((1..NumRules) \ warnings))
            /\ total_warnings = Cardinality(hits(warnings))
            /\ \A i \in 1..NumRules :
                  /\ pitfall_counts[i] = Cardinality({f \in loaded : Triggers(i, f)})
                  /\ results.entries[i].languages = LanguageCounts(i, loaded)
            /\ pc \in {"write", "done"} =>
                  /\ Taken = Files
                  /\ results.summary.total_repositories_analyzed = total_repos
                  /\ results.summary.repositories_with_target_languages =
                         repos_with_target_languages
                  /\ results.summary.total_pitfalls_detected = total_pitfalls
                  /\ results.summary.total_warnings_detected = total_warnings
                  /\ \A i \in 1..NumRules :
                        results.entries[i].count = pitfall_counts[i]

\* The summary of a corpus of files of two kinds is written; a rule triggered
\* on two of them, which share a language
C7_Witness ==
    /\ pc = "done"
    /\ \E f, g \in Files : corpus[f] # corpus[g] /\ Loaded(f) /\ Loaded(g)
    /\ \E i \in 1..NumRules :
          /\ output_file[1].entries[i].count = 2
          /\ \E l \in DOMAIN output_file[1].entries[i].languages :
                output_file[1].entries[i].languages[l] = 2

\* ------------------------------------------------------------------------
\* C8: as stated, the percentage of a rule is its count over the number of
\* analysed repositories that have the target property of the rule. (Refuted:
\* the denominator is the number of files of the corpus.)
\* ------------------------------------------------------------------------
\* The loaded files that have the target property of rule i
WithProperty(i) ==
    {f \in Files : Loaded(f) /\ Has(File(f).data, RuleProperty[pitfall_detectors[i]])}

C10_FinalizedOnceAfterLoop ==
    /\ [](pc \in {"loop", "load", "rules", "jsonld"} =>
             \A i \in 1..NumRules :
                 results.entries[i].count = 0 /\ results.entries[i].percentage = 0)
    /\ [][(\E i \in 1..NumRules :
              \/ results.entries[i].count' # results.entries[i].count
              \/ results.entries[i].percentage' # results.entries[i].percentage)
            => (pc = "loop" /\ pending = {} /\ output_file = <<>> /\ pc' = "write")]_vars
    /\ [][(pc \in {"write", "done"}) => (results' = results)]_vars
    /\ [](output_file # <<>> => (pc = "done" /\ output_file = <<results>>))

\* A rule has triggered on a file, and its summary entry still has count 0
C10_Witness ==
    /\ pc = "rules"
    /\ \E i \in 1..NumRules :
          /\ pitfall_counts[i] >= 1
          /\ results.entries[i].languages # <<>>
          /\ results.entries[i].count = 0

\* ------------------------------------------------------------------------
\* C5: a rule whose property is present with observations of the wrong type
\* (a value that is a list, an object or a number, or an entry that is no
\* object) returns a finding that is not triggered; for the local-file-license,
\* identifier-is-a-name, download-URL-outdated and issue-tracker-format rules.
\* (Refuted: the rules raise.)
\* ------------------------------------------------------------------------
WrongTypedEntry(entry) ==
    \/ ~IsDict(entry)
    \/ /\ Has(entry, "result")
       /\ IsDict(entry.d.result)
       /\ Has(entry.d.result, "value")
       /\ entry.d.result.d.value.t \in {"int", "list", "dict"}

\* The property is a list of entries, all of them of the wrong type
WrongTyped(record, property) ==
    /\ Has(record, property)
    /\ IsList(record.d[property])
    /\ record.d[property].items # <<>>
    /\ \A k \in 1..Len(record.d[property].items) :
          WrongTypedEntry(record.d[property].items[k])

C5_WrongTypeNotTriggered ==
    (/\ rule_called \in {"P008", "W014", "P019", "P018"}
     /\ WrongTyped(rule_input, RuleProperty[rule_called]))
        => /\ ~rule_outcome[1].raised
           /\ ~HasIssue(rule_outcome[1].val)

\* ------------------------------------------------------------------------
\* C6: on a record that lacks the property of a rule (license,
\* reference_publication, download_url, issues_url, identifier) the rule
\* does not raise and returns its initial result: has_pitfall or has_warning
\* false, every evidence field as the rule creates it.
\* ------------------------------------------------------------------------
InitialFinding(code, file_name) ==
    CASE code = "P008" -> P008Initial(file_name)
      [] code = "P011" -> CitationInitial(file_name)
      [] code = "W014" -> W014Initial(file_name)
      [] code = "P018" -> IssueInitial(file_name)
      [] code = "P019" -> DownloadInitial(file_name)

C6_AbsentPropertyNotTriggered ==
    (/\ rule_called \in DOMAIN RuleProperty
     /\ ~Has(rule_input, RuleProperty[rule_called]))
        => /\ ~rule_outcome[1].raised
           /\ ~HasIssue(rule_outcome[1].val)
           /\ rule_outcome[1].val = InitialFinding(rule_called, 0)

\* The issue tracker rule has returned on a record that has a license with
\* malformed observations and no issues_url
C6_Witness ==
    /\ rule_called = "P018"
    /\ ~Has(rule_input, "issues_url")
    /\ WrongTyped(rule_input, "license")
    /\ ~rule_outcome[1].raised

\* ------------------------------------------------------------------------
\* PitfallAnalyzer.analyze_all_repositories: the analyses of a repository
\* ------------------------------------------------------------------------
MaxRepos == 2

\* analyze_license_pitfalls: no LICENSE file; a file without defect; one with
\* placeholders; one with a copyright statement only; one with both
LicenseAnalysis(found, placeholders, copyright_only) ==
    [has_license |-> found,
     has_license_placeholders |-> placeholders,
     has_license_copyright_only |-> copyright_only]

LicenseAnalyses ==
    {LicenseAnalysis(FALSE, FALSE, FALSE), LicenseAnalysis(TRUE, FALSE, FALSE),
     LicenseAnalysis(TRUE, TRUE, FALSE), LicenseAnalysis(TRUE, FALSE, TRUE),
     LicenseAnalysis(TRUE, TRUE, TRUE)}

\* The analysis dict of one codemeta property: empty when the file was not
\* analysed, else with the flag that tells whether the property is there
PropertyAnalysis(analysed, flag, present) ==
    IF analysed THEN [k \in {flag} |-> present] ELSE [k \in {} |-> FALSE]

\* analyze_codemeta_pitfalls: found tells whether a codemeta.json exists,
\* analysed whether it could be read, present the properties it has and
\* defects the pitfalls found
CodemetaAnalysis(found, analysed, present, defects) ==
    [has_codemeta |-> found,
     has_software_requirements_without_versions |-> "without_versions" \in defects,
     software_requirements_analysis |->
         PropertyAnalysis(analysed, "has_software_requirements",
                          "software_requirements" \in present),
     has_software_requirements_with_local_file_urls |-> "local_file_urls" \in defects,
     software_requirements_local_files_analysis |->
         PropertyAnalysis(analysed, "has_software_requirements",
                          "software_requirements" \in present),
     has_software_requirements_with_homepage_urls |-> "homepage_urls" \in defects,
     software_requirements_homepage_analysis |->
         PropertyAnalysis(analysed, "has_software_requirements",
                          "software_requirements" \in present),
     has_readme_pointing_to_non_readme |-> "readme_non_readme" \in defects,
     readme_analysis |->
         PropertyAnalysis(analysed, "has_readme_property", "readme" \in present),
     has_license_pointing_to_local_file |-> "license_local_file" \in defects,
     license_analysis |->
         PropertyAnalysis(analysed, "has_license_property", "license" \in present),
     has_software_version_as_branch |-> "version_as_branch" \in defects,
     software_version_analysis |->
         PropertyAnalysis(analysed, "has_software_version", "version" \in present),
     has_programming_languages_without_versions |-> "languages_without_versions" \in defects,
     programming_languages_analysis |->
         PropertyAnalysis(analysed, "has_programming_languages",
                          "programming_languages" \in present),
     has_empty_identifier |-> "empty_identifier" \in defects,
     identifier_analysis |->
         PropertyAnalysis(analysed, "has_identifier", "identifier" \in present),
     has_keywords_as_string |-> "keywords_as_string" \in defects,
     keywords_analysis |->
         PropertyAnalysis(analysed, "has_keywords", "keywords" \in present),
     has_code_repository_pointing_to_homepage |-> "repository_is_homepage" \in defects,
     code_repository_analysis |->
         PropertyAnalysis(analysed, "has_code_repository", "code_repository" \in present)]

CodemetaProperties ==
    {"software_requirements", "readme", "license", "version", "programming_languages",
     "identifier", "keywords", "code_repository"}

CodemetaDefects ==
    {"without_versions", "local_file_urls", "homepage_urls", "readme_non_readme",
     "license_local_file", "version_as_branch", "languages_without_versions",
     "empty_identifier", "keywords_as_string", "repository_is_homepage"}

\* No codemeta.json; one that cannot be read; one without any of the
\* properties; one with all of them and no defect; one with all of them and
\* every defect; one with requirements and an empty identifier only
CodemetaAnalyses ==
    {CodemetaAnalysis(FALSE, FALSE, {}, {}),
     CodemetaAnalysis(TRUE, FALSE, {}, {}),
     CodemetaAnalysis(TRUE, TRUE, {}, {}),
     CodemetaAnalysis(TRUE, TRUE, CodemetaProperties, {}),
     CodemetaAnalysis(TRUE, TRUE, CodemetaProperties, CodemetaDefects),
     CodemetaAnalysis(TRUE, TRUE, {"software_requirements", "identifier"},
                      {"empty_identifier"})}

\* analyze_repository: the two analyses in one dict
CombinedResult(license_analysis, codemeta_analysis) ==
    [k \in DOMAIN license_analysis \cup DOMAIN codemeta_analysis |->
        IF k \in DOMAIN codemeta_analysis THEN codemeta_analysis[k]
        ELSE license_analysis[k]]

\* ------------------------------------------------------------------------
\* PitfallAnalyzer.analyze_all_repositories: the counters and the summary
\* ------------------------------------------------------------------------
\* counters[key] += 1 when the condition holds
Count(counters, key, condition) ==
    IF condition THEN [counters EXCEPT ![key] = @ + 1] ELSE counters

\* The license counters after one result: copyright-only is counted in the
\* elif of the placeholders
CountLicense(stats, result) ==
    IF ~result.has_license THEN stats
    ELSE LET s1 == Count(stats, "repositories_with_license", TRUE)
             s2 == Count(s1, "repositories_with_license_placeholders",
                         result.has_license_placeholders)
         IN  Count(s2, "repositories_with_license_copyright_only",
                   ~result.has_license_placeholders /\ result.has_license_copyright_only)

\* The codemeta counters after one result; the loop counts neither the
\* readme, nor the license property, nor the software version counters
CountCodemeta(stats, result) ==
    IF ~result.has_codemeta THEN stats
    ELSE LET requirements ==
                 Get(result.software_requirements_analysis, "has_software_requirements", FALSE)
             local_files ==
                 Get(result.software_requirements_local_files_analysis,
                     "has_software_requirements", FALSE)
             homepages ==
                 Get(result.software_requirements_homepage_analysis,
                     "has_software_requirements", FALSE)
             prog_langs ==
                 Get(result.programming_languages_analysis, "has_programming_languages", FALSE)
             identifier == Get(result.identifier_analysis, "has_identifier", FALSE)
             keywords   == Get(result.keywords_analysis, "has_keywords", FALSE)
             code_repo  == Get(result.code_repository_analysis, "has_code_repository", FALSE)
             s1 == Count(stats, "repositories_with_codemeta", TRUE)
             s2 == Count(s1, "repositories_with_software_requirements", requirements)
             s3 == Count(s2, "repositories_with_software_requirements_without_versions",
                         requirements /\ result.has_software_requirements_without_versions)
             s4 == Count(s3, "repositories_with_software_requirements_with_local_file_urls",
                         local_files /\ result.has_software_requirements_with_local_file_urls)
             s5 == Count(s4, "repositories_with_software_requirements_with_homepage_urls",
                         homepages /\ result.has_software_requirements_with_homepage_urls)
             s6 == Count(s5, "repositories_with_programming_languages", prog_langs)
             s7 == Count(s6, "repositories_with_programming_languages_without_versions",
                         prog_langs /\ result.has_programming_languages_without_versions)
             s8 == Count(s7, "repositories_with_identifier", identifier)
             s9 == Count(s8, "repositories_with_empty_identifier",
                         identifier /\ result.has_empty_identifier)
             s10 == Count(s9, "repositories_with_keywords", keywords)
             s11 == Count(s10, "repositories_with_keywords_as_string",
                          keywords /\ result.has_keywords_as_string)
             s12 == Count(s11, "repositories_with_code_repository", code_repo)
         IN  Count(s12, "repositories_with_code_repository_pointing_to_homepage",
                   code_repo /\ result.has_code_repository_pointing_to_homepage)

\* round((count / total * 100) if total > 0 else 0, 2), in hundredths
GuardedRatio(count, total) ==
    IF total > 0 THEN Percentage(count, total) ELSE Ok(0)

\* The percentages of the summary, each with the counters it divides
SummaryRatios ==
    [percentage_with_license_placeholders |->
         <<"license", "repositories_with_license_placeholders", "repositories_with_license">>,
     percentage_with_license_copyright_only |->
         <<"license", "repositories_with_license_copyright_only",
           "repositories_with_license">>,
     percentage_with_software_requirements_without_versions |->
         <<"codemeta", "repositories_with_software_requirements_without_versions",
           "repositories_with_software_requirements">>,
     percentage_with_software_requirements_with_local_file_urls |->
         <<"codemeta", "repositories_with_software_requirements_with_local_file_urls",
           "repositories_with_software_requirements">>,
     percentage_with_software_requirements_with_homepage_urls |->
         <<"codemeta", "repositories_with_software_requirements_with_homepage_urls",
           "repositories_with_software_requirements">>,
     percentage_with_readme_pointing_to_non_readme |->
         <<"codemeta", "repositories_with_readme_pointing_to_non_readme",
           "repositories_with_readme_property">>,
     percentage_with_license_pointing_to_local_file |->
         <<"codemeta", "repositories_with_license_pointing_to_local_file",
           "repositories_with_license_property">>,
     percentage_with_software_version_as_branch |->
         <<"codemeta", "repositories_with_software_version_as_branch",
           "repositories_with_software_version">>,
     percentage_with_programming_languages_without_versions |->
         <<"codemeta", "repositories_with_programming_languages_without_versions",
           "repositories_with_programming_languages">>,
     percentage_with_empty_identifier |->
         <<"codemeta", "repositories_with_empty_identifier", "repositories_with_identifier">>,
     percentage_with_keywords_as_string |->
         <<"codemeta", "repositories_with_keywords_as_string", "repositories_with_keywords">>,
     percentage_with_code_repository_pointing_to_homepage |->
         <<"codemeta", "repositories_with_code_repository_pointing_to_homepage",
           "repositories_with_code_repository">>]

\* One percentage of the summary
SummaryRatio(name) ==
    LET ratio == SummaryRatios[name]
        stats == IF ratio[1] = "license" THEN license_stats ELSE codemeta_stats
    IN  GuardedRatio(stats[ratio[2]], stats[ratio[3]])

InitAnalyzer ==
    /\ PipelineIdle
    /\ RulesIdle
    /\ pa_pc = "loop"
    /\ pa_repositories \in 0..MaxRepos
    /\ detailed_results = <<>>
    /\ license_stats = InitialLicenseStats
    /\ codemeta_stats = InitialCodemetaStats
    /\ pa_summary = <<>>

\* One iteration of `for repo_path in repositories`
AnalyzeRepository ==
    /\ pa_pc = "loop"
    /\ pa_repositories > 0
    /\ \E license_analysis \in LicenseAnalyses, codemeta_analysis \in CodemetaAnalyses :
          LET result == CombinedResult(license_analysis, codemeta_analysis)
          IN  /\ detailed_results' = Append(detailed_results, result)
              /\ license_stats' = CountLicense(license_stats, result)
              /\ codemeta_stats' = CountCodemeta(codemeta_stats, result)
    /\ pa_repositories' = pa_repositories - 1
    /\ UNCHANGED <<pa_pc, pa_summary, pipeline_vars, rule_vars>>

\* After the loop: the percentages and the summary returned
Summarize ==
    /\ pa_pc = "loop"
    /\ pa_repositories = 0
    /\ IF \E name \in DOMAIN SummaryRatios : SummaryRatio(name).raised
       THEN /\ pa_pc' = "crashed"
            /\ UNCHANGED pa_summary
       ELSE /\ pa_summary' =
                  Append(pa_summary,
                         [total_repositories_found |-> Len(detailed_results),
                          license_analysis  |-> license_stats,
                          codemeta_analysis |-> codemeta_stats,
                          percentages |-> [name \in DOMAIN SummaryRatios |->
                                              SummaryRatio(name).val],
                          detailed_results |-> detailed_results])
            /\ pa_pc' = "done"
    /\ UNCHANGED <<pa_repositories, detailed_results, license_stats, codemeta_stats,
                   pipeline_vars, rule_vars>>

NextAnalyzer ==
    \/ AnalyzeRepository
    \/ Summarize

SpecAnalyzer == InitAnalyzer /\ [][NextAnalyzer]_vars

\* ------------------------------------------------------------------------
\* The two summaries: detect_all_pitfalls or analyze_all_repositories runs
\* ------------------------------------------------------------------------
InitSummaries == Init \/ InitAnalyzer

NextSummaries ==
    \/ NextFile
    \/ LoadFile
    \/ RunDetector
    \/ SaveJsonld
    \/ Finalize
    \/ WriteSummary
    \/ AnalyzeRepository
    \/ Summarize

SpecSummaries == InitSummaries /\ [][NextSummaries]_vars

\* ------------------------------------------------------------------------
\* C9: no percentage is computed by a division by zero, and a percentage
\* whose denominator is zero is reported as 0.0: in the summary of
\* detect_all_pitfalls, where the denominator is the number of files, and in
\* the summary of analyze_all_repositories, where it is the number of
\* repositories with the property.
\* ------------------------------------------------------------------------
C9_ZeroDenominator ==
    /\ pc # "crashed"
    /\ pa_pc # "crashed"
    /\ (pc \in {"write", "done"} /\ total_repos = 0) =>
          \A i \in 1..NumRules : results.entries[i].percentage = 0
    /\ output_file # <<>> /\ output_file[1].summary.total_repositories_analyzed = 0 =>
          \A i \in 1..NumRules : output_file[1].entries[i].percentage = 0
    /\ pa_pc = "done" =>
          \A name \in DOMAIN SummaryRatios :
              LET stats == IF SummaryRatios[name][1] = "license"
                           THEN pa_summary[1].license_analysis
                           ELSE pa_summary[1].codemeta_analysis
              IN  stats[SummaryRatios[name][3]] = 0 => pa_summary[1].percentages[name] = 0

\* The summary of an empty corpus has been written
C9_Witness ==
    /\ pc = "done"
    /\ Files = {}
    /\ output_file # <<>>
    /\ \A i \in 1..NumRules : output_file[1].entries[i].percentage = 0

\* The name of each input file of a corpus without its ".json", followed by
\* "_pitfalls.jsonld"
DocumentName ==
    [f \in 1..MaxFiles |-> SubSeq(FileName(f), 1, Len(FileName(f)) - 5)
                        \o Chars("_pitfalls.jsonld")]

InputNamesEndInJson ==
    \A f \in 1..MaxFiles :
        SubSeq(FileName(f), Len(FileName(f)) - 4, Len(FileName(f))) = Chars(".json")

DocumentNamesDiffer ==
    \A f, g \in 1..MaxFiles : DocumentName[f] = DocumentName[g] => f = g

\* ------------------------------------------------------------------------
\* C11: a per-repository document exists only for a record on which a finding
\* triggered; no two records share a document and every saved document is
\* counted once, so a record has at most one; and the name of the document
\* is the name of the input file without its ".json", followed by
\* "_pitfalls.jsonld".
\* ------------------------------------------------------------------------
C11_DocumentOnlyWhenTriggered ==
    LET triggered == {f \in Files \ pending :
                        Loaded(f) /\ \E i \in 1..NumRules : Triggers(i, f)}
    IN  /\ InputNamesEndInJson
        /\ \A d \in DOMAIN pitfalls_output_dir : \E f \in triggered : d = DocumentName[f]
        /\ DocumentNamesDiffer
        /\ jsonld_files_created = Cardinality(DOMAIN pitfalls_output_dir)
        /\ jsonld_files_created <= Cardinality(triggered)

\* The run is over: repo2.v2.json has its document, and a record without a
\* triggered finding has none
C11_Witness ==
    /\ pc = "done"
    /\ Chars("repo2.v2_pitfalls.jsonld") \in DOMAIN pitfalls_output_dir
    /\ \E f \in Files :
          /\ Loaded(f)
          /\ \A i \in 1..NumRules : ~Triggers(i, f)
          /\ JsonldFileName(FileName(f)) \notin DOMAIN pitfalls_output_dir

\* ------------------------------------------------------------------------
\* C12: the checks of a saved document are the triggered findings of its
\* record, one check each, in the order of the findings list, which is the
\* order of the detector table; the checkId of a check is the code of the
\* rule that returned the finding; a finding that did not trigger has none.
\* ------------------------------------------------------------------------
C12_ChecksAreTriggeredFindings ==
    \A f \in Files \ pending :
        LET name == JsonldFileName(FileName(f))
        IN  name \in DOMAIN pitfalls_output_dir =>
                pitfalls_output_dir[name] =
                    SelectSeq(pitfall_detectors,
                              LAMBDA c : \E i \in 1..NumRules :
                                            pitfall_detectors[i] = c /\ Triggers(i, f))

\* A saved document has two checks, of a record that has findings which did
\* not trigger
C12_Witness ==
    \E f \in Files \ pending :
        /\ JsonldFileName(FileName(f)) \in DOMAIN pitfalls_output_dir
        /\ Len(pitfalls_output_dir[JsonldFileName(FileName(f))]) = 2
        /\ \E i \in 1..NumRules : Loaded(f) /\ ~Triggers(i, f) /\ ~Raises(i, f)

\* ------------------------------------------------------------------------
\* json_ld_utils.py: format_evidence_text
\* ------------------------------------------------------------------------

\* str(x) of a str or an int, as an f-string and str() write it
StrOf(x) == x.v

\* sep.join(strings)
RECURSIVE Join(_, _)
Join(strings, sep) ==
    IF strings = <<>> THEN <<>>
    ELSE IF Len(strings) = 1 THEN strings[1]
    ELSE strings[1] \o sep \o Join(Tail(strings), sep)

\* strings[:n]
Take(strings, n) == SubSeq(strings, 1, IF Len(strings) < n THEN Len(strings) ELSE n)

\* extract_metadata_source(pitfall_result): a metadata_source that is None or
\* a number makes `'/' in metadata_source` raise TypeError
extract_metadata_source(pitfall_result) ==
    IF "metadata_source_file" \in DOMAIN pitfall_result
       /\ Truthy(pitfall_result["metadata_source_file"])
    THEN Ok(StrOf(pitfall_result["metadata_source_file"]))
    ELSE LET metadata_source == Get(pitfall_result, "metadata_source",
                                    Str(Chars("metadata files")))
         IN  IF ~IsStr(metadata_source) THEN Raise
             ELSE Ok(LastComponent(metadata_source.v))

\* The parts of an f-string: literal text, the metadata source, and
\* `pitfall_result.get(key) or placeholder`
Lit(str) == [part |-> "lit", text |-> Chars(str)]
Src == [part |-> "src"]
Val(key, placeholder) == [part |-> "val", key |-> key, text |-> Chars(placeholder)]

\* The branches of format_evidence_text that test keys and return one
\* f-string: the keys tested and the f-string after evidence_base. The codes
\* P002, W003, W004, W010 and P013 have branches of their own below; any other
\* code has none
EvidenceBranch(pitfall_code) ==
    CASE pitfall_code = "P001" ->
           [keys |-> {"metadata_version", "release_version"},
            parts |-> <<Src, Lit(" version '"), Val("metadata_version", "unknown"),
                        Lit("' does not match release version '"),
                        Val("release_version", "unknown"), Lit("'")>>]
      [] pitfall_code = "P005" ->
           [keys |-> {"author_value"},
            parts |-> <<Src, Lit(" Multiple authors found in single field: '"),
                        Val("author_value", "unknown"), Lit("'")>>]
      [] pitfall_code = "P006" ->
           [keys |-> {"readme_url"},
            parts |-> <<Lit(" codemeta.json README property points to homepage/wiki instead of README file: "),
                        Val("readme_url", "unknown URL")>>]
      [] pitfall_code = "P007" ->
           [keys |-> {"reference_url"},
            parts |-> <<Lit("codemeta.json Reference publication points to software archive instead of paper: "),
                        Val("reference_url", "unknown URL")>>]
      [] pitfall_code = "P008" ->
           [keys |-> {"license_value"},
            parts |-> <<Src, Lit(" License points to local file instead of license name: '"),
                        Val("license_value", "unknown"), Lit("'")>>]
      [] pitfall_code = "P011" ->
           [keys |-> {},
            parts |-> <<Lit("CITATION.cff file exists but does not contain referencePublication while codemeta.json references it")>>]
      [] pitfall_code = "W012" ->
           [keys |-> {"requirements_string"},
            parts |-> <<Src, Lit(" Multiple requirements written as single string: '"),
                        Val("requirements_string", "unknown"), Lit("'")>>]
      [] pitfall_code = "W014" ->
           [keys |-> {"codemeta_identifier"},
            parts |-> <<Lit("codemeta.json Identifier is a name instead of valid unique identifier: '"),
                        Val("codemeta_identifier", "unknown"), Lit("'")>>]
      [] pitfall_code = "W015" ->
           [keys |-> {},
            parts |-> <<Lit("codemeta.json identifier field is empty or missing")>>]
      [] pitfall_code = "P016" ->
           [keys |-> {"repository_url"},
            parts |-> <<Src, Lit(" codeRepository points to homepage instead of repository: "),
                        Val("repository_url", "unknown URL")>>]
      [] pitfall_code = "P017" ->
           [keys |-> {},
            parts |-> <<Lit("LICENSE file only contains copyright information without actual license terms")>>]
      [] pitfall_code = "P018" ->
           [keys |-> {"issue_url"},
            parts |-> <<Lit("codemeta.json IssueTracker URL violates expected format: "),
                        Val("issue_url", "unknown URL")>>]
      [] pitfall_code = "P019" ->
           [keys |-> {"download_url"},
            parts |-> <<Lit("codemeta.json downloadURL is outdated or invalid: "),
                        Val("download_url", "unknown URL")>>]
      [] pitfall_code = "P020" ->
           [keys |-> {"development_status"},
            parts |-> <<Lit("codemeta.json developmentStatus is a URL instead of status string: "),
                        Val("development_status", "unknown")>>]
      [] pitfall_code = "W021" ->
           [keys |-> {"author_value"},
            parts |-> <<Src, Lit(" GivenName is a list instead of string: "),
                        Val("author_value", "unknown")>>]
      [] pitfall_code = "P022" ->
           [keys |-> {"license_value"},
            parts |-> <<Src, Lit(" License does not specify version: '"),
                        Val("license_value", "unknown"), Lit("'")>>]
      [] pitfall_code = "P023" ->
           [keys |-> {"repository_url"},
            parts |-> <<Src, Lit(" codeRepository uses Git shorthand instead of full URL: '"),
                        Val("repository_url", "unknown URL"), Lit("'")>>]
      [] pitfall_code = "P024" ->
           [keys |-> {"identifier_value"},
            parts |-> <<Lit("Identifier uses bare DOI instead of full URL: '"),
                        Val("identifier_value", "unknown"), Lit("'")>>]
      [] pitfall_code = "P025" ->
           [keys |-> {"ci_url"},
            parts |-> <<Lit("codemeta.json Continuous integration URL returns "),
                        Val("status_code", "unknown"), Lit(": "),
                        Val("ci_url", "unknown URL")>>]
      [] pitfall_code = "P026" ->
           [keys |-> {"github_api_url"},
            parts |-> <<Lit("codeRepository points to different repository: "),
                        Val("github_api_url", "unknown URL")>>]
      [] pitfall_code = "P027" ->
           [keys |-> {"codemeta_version"},
            parts |-> <<Lit("codemeta.json version '"), Val("codemeta_version", "unknown"),
                        Lit("' does not match package version")>>]
      [] pitfall_code = "P028" ->
           [keys |-> {"identifier_value"},
            parts |-> <<Lit("codemeta Identifier uses raw SWHID without resolvable URL: '"),
                        Val("identifier_value", "unknown"), Lit("'")>>]
      [] OTHER -> [keys |-> {}, parts |-> <<>>]

\* The text of one part of an f-string, given the metadata source
PartText(part, pitfall_result, metadata_source) ==
    CASE part.part = "lit" -> part.text
      [] part.part = "src" -> metadata_source
      [] part.part = "val" ->
           LET value == Get(pitfall_result, part.key, NoneVal)
           IN  IF Truthy(value) THEN StrOf(value) ELSE part.text

\* An f-string: Raise when it reads the metadata source and
\* extract_metadata_source raises
FString(parts, pitfall_result) ==
    LET source == IF \E k \in 1..Len(parts) : parts[k].part = "src"
                  THEN extract_metadata_source(pitfall_result) ELSE Ok(<<>>)
    IN  IF source.raised THEN Raise
        ELSE Ok(Join([k \in 1..Len(parts) |-> PartText(parts[k], pitfall_result, source.val)],
                     <<>>))

\* The default fallback evidence
DefaultEvidence(pitfall_result) ==
    FString(<<Lit("Issue detected in "), Val("file_name", "unknown file")>>, pitfall_result)

\* [str(x) for x in items if x is not None]
CleanStrings(items) ==
    LET kept == SelectSeq(items, LAMBDA x : x # NoneVal)
    IN  [k \in 1..Len(kept) |-> StrOf(kept[k])]

\* The urls of the P013 branch: the truthy "url" of a dict, or a non-empty str
InvalidUrls(items) ==
    LET kept == SelectSeq(items, LAMBDA x :
                    \/ IsDict(x) /\ Has(x, "url") /\ Truthy(x.d.url)
                    \/ IsStr(x) /\ Truthy(x))
    IN  [k \in 1..Len(kept) |-> IF IsDict(kept[k]) THEN StrOf(kept[k].d.url) ELSE kept[k].v]

\* ", ".join(strings[:3]) and the dots that follow it when counted > 3
ListOfThree(strings, counted) ==
    Join(Take(strings, 3), Chars(", ")) \o (IF counted > 3 THEN Chars("...") ELSE <<>>)

\* The text after evidence_base, or Raise
EvidenceText(pitfall_code, pitfall_result) ==
    CASE pitfall_code = "P002" ->
           IF Truthy(Get(pitfall_result, "placeholders_found", NoneVal))
           THEN FString(<<Lit(" License file contains unreplaced template placeholders")>>,
                        pitfall_result)
           ELSE FString(<<Lit(" License file contains template placeholders that were not replaced")>>,
                        pitfall_result)
      [] pitfall_code = "W003" ->
           LET fallback == FString(<<Lit("Software requirements found without version specifications")>>,
                                   pitfall_result)
           IN  IF "unversioned_requirements" \notin DOMAIN pitfall_result THEN fallback
               ELSE
                 LET reqs == pitfall_result["unversioned_requirements"]
                     metadata_source == extract_metadata_source(pitfall_result)
                 IN  IF metadata_source.raised THEN Raise
                     ELSE IF IsList(reqs) /\ CleanStrings(reqs.items) # <<>>
                     THEN Ok(metadata_source.val
                             \o Chars(" contains software requirements without versions: ")
                             \o ListOfThree(CleanStrings(reqs.items), Len(reqs.items)))
                     ELSE fallback
      [] pitfall_code = "W004" ->
           IF {"codemeta_date_parsed", "github_api_date_parsed"} \subseteq DOMAIN pitfall_result
           THEN FString(<<Lit("codemeta.json dateModified '"),
                          Val("codemeta_date_parsed", "unknown"),
                          Lit("' is outdated compared to repository date '"),
                          Val("github_api_date_parsed", "unknown"), Lit("'")>>, pitfall_result)
           ELSE FString(<<Lit("dateModified in codemeta.json is outdated compared to actual repository last update")>>,
                        pitfall_result)
      [] pitfall_code = "W010" ->
           LET langs == Get(pitfall_result, "programming_languages_without_version", NoneVal)
           IN  IF IsList(langs) /\ CleanStrings(langs.items) # <<>>
               THEN Ok(Chars("codemeta.json Programming languages without versions: ")
                       \o Join(CleanStrings(langs.items), Chars(", ")))
               ELSE FString(<<Lit(" codemeta.json Programming languages in metadata do not have version specifications")>>,
                            pitfall_result)
      [] pitfall_code = "P013" ->
           LET invalid_urls == Get(pitfall_result, "invalid_urls", NoneVal)
           IN  IF IsList(invalid_urls) /\ InvalidUrls(invalid_urls.items) # <<>>
               THEN LET urls == InvalidUrls(invalid_urls.items)
                        metadata_source == extract_metadata_source(pitfall_result)
                    IN  IF metadata_source.raised THEN Raise
                        ELSE Ok(metadata_source.val
                                \o Chars(" Software requirements contain invalid URLs: ")
                                \o ListOfThree(urls, Len(urls)))
               ELSE FString(<<Lit("Software requirements contain invalid URLs")>>, pitfall_result)
      [] OTHER ->
           LET branch == EvidenceBranch(pitfall_code)
           IN  IF branch.parts # <<>> /\ branch.keys \subseteq DOMAIN pitfall_result
               THEN FString(branch.parts, pitfall_result)
               ELSE DefaultEvidence(pitfall_result)

\* format_evidence_text(pitfall_code, pitfall_result)
format_evidence_text(pitfall_code, pitfall_result) ==
    LET text == EvidenceText(pitfall_code, pitfall_result)
    IN  IF text.raised THEN Raise
        ELSE Ok(Chars(pitfall_code) \o Chars(" detected: ") \o text.val)

\* ------------------------------------------------------------------------
\* Single calls of format_evidence_text
\* ------------------------------------------------------------------------

\* A key that a finding does not have
Absent == [t |-> "absent"]

\* The codes of the detector table, and a code that has no branch
EvidenceCodes == {pitfall_detectors[i] : i \in 1..NumRules} \cup {"Unknown"}

\* The rule-specific keys that the branch of a code tests or reads
EvidenceKeys(pitfall_code) ==
    CASE pitfall_code = "P002" -> {"placeholders_found"}
      [] pitfall_code = "W003" -> {"unversioned_requirements"}
      [] pitfall_code = "W004" -> {"codemeta_date_parsed", "github_api_date_parsed"}
      [] pitfall_code = "W010" -> {"programming_languages_without_version"}
      [] pitfall_code = "P013" -> {"invalid_urls"}
      [] OTHER -> LET parts == EvidenceBranch(pitfall_code).parts
                  IN  {parts[k].key : k \in {j \in 1..Len(parts) : parts[j].part = "val"}}

\* The keys whose values are lists
ListKeys == {"unversioned_requirements", "programming_languages_without_version", "invalid_urls"}

\* Values of an evidence key
EvidenceValues(key) ==
    IF key \in ListKeys
    THEN {Absent, NoneVal, ListVal(<<>>), ListVal(<<NoneVal>>),
          ListVal(<<Str(Chars("numpy")), NoneVal, IntVal(<<"3">>), Str(Chars("scipy"))>>),
          ListVal(<<Str(Chars("a")), Str(Chars("b")), Str(Chars("c")), Str(Chars("d"))>>)}
         \cup IF key = "invalid_urls"
              THEN {ListVal(<<Dict([url |-> Str(Chars("http://x"))]), Str(<<>>),
                              Dict([url |-> NoneVal])>>)}
              ELSE {}
    ELSE {Absent, NoneVal, Str(<<>>), Str(Chars("v1")), IntVal(<<"5">>)}

\* Values of metadata_source, of metadata_source_file and of file_name
SourceValues ==
    {Absent, NoneVal, Str(<<>>), Str(Chars("codemeta.json")),
     Str(Chars("repo/codemeta.json")), IntVal(<<"5">>)}
SourceFileValues == {Absent, NoneVal, Str(Chars("README.md"))}
FileNameValues == {Absent, NoneVal, Str(Chars("r.json"))}

\* The finding that holds the values that are not Absent
Finding(own, metadata_source, metadata_source_file, file_name) ==
    LET all == [k \in DOMAIN own \cup {"metadata_source", "metadata_source_file", "file_name"} |->
                   CASE k = "metadata_source" -> metadata_source
                     [] k = "metadata_source_file" -> metadata_source_file
                     [] k = "file_name" -> file_name
                     [] OTHER -> own[k]]
    IN  [k \in {j \in DOMAIN all : all[j] # Absent} |-> all[k]]

InitEvidence ==
    /\ PipelineIdle
    /\ AnalyzerIdle
    /\ \E pitfall_code \in EvidenceCodes :
         \E own \in [EvidenceKeys(pitfall_code) -> UNION {EvidenceValues(k) : k \in EvidenceKeys(pitfall_code)}] :
           \E metadata_source \in SourceValues, metadata_source_file \in SourceFileValues,
              file_name \in FileNameValues :
             /\ \A k \in DOMAIN own : own[k] \in EvidenceValues(k)
             /\ rule_input = [code |-> pitfall_code,
                              finding |-> Finding(own, metadata_source,
                                                  metadata_source_file, file_name)]
    /\ rule_called = "none"
    /\ rule_outcome = <<>>

CallFormatEvidence ==
    Call("format_evidence_text", format_evidence_text(rule_input.code, rule_input.finding))

NextEvidence == CallFormatEvidence

SpecEvidence == InitEvidence /\ [][NextEvidence]_vars

\* ------------------------------------------------------------------------
\* C13: format_evidence_text returns a string and never raises; when a key
\* that the branch of the code tests is absent the text is the default
\* fallback ("Issue detected in" the file); and when a value that the text
\* shows, the metadata source included, is present but None or empty, the
\* text shows an "unknown" placeholder.
\* ------------------------------------------------------------------------
C13_EvidenceNeverRaises ==
    rule_called = "format_evidence_text" =>
        LET finding == rule_input.finding
            branch  == EvidenceBranch(rule_input.code)
            shown   == {branch.parts[k].key :
                           k \in {j \in 1..Len(branch.parts) : branch.parts[j].part = "val"}}
                       \cup IF \E k \in 1..Len(branch.parts) : branch.parts[k].part = "src"
                            THEN {"metadata_source"} ELSE {}
        IN  /\ ~rule_outcome[1].raised
            /\ branch.keys \ DOMAIN finding # {} =>
                   Contains(rule_outcome[1].val, Chars("Issue detected in "))
            /\ /\ branch.keys # {}
               /\ branch.keys \subseteq DOMAIN finding
               /\ \E k \in shown \cap DOMAIN finding : ~Truthy(finding[k])
               => Contains(rule_outcome[1].val, Chars("unknown"))

\* ------------------------------------------------------------------------
\* Single calls of extract_programming_languages
\* ------------------------------------------------------------------------

\* Names of programming_languages observations
LanguageNames ==
    {Chars("Python"), Chars("python3"), Chars(" Java "), Chars("cpp"), Chars("CPlusPlus"),
     Chars("c"), Chars("R\n"), Chars("RUST"), Chars("Go"), Chars("JavaScript")}

\* Entries of the programming_languages list: a name under "value" or under
\* "name", an empty "value" that hides a "name", a number for a name, and
\* entries without a result object
LanguageEntries ==
    {Dict([result |-> Dict([value |-> Str(n)])]) : n \in LanguageNames}
    \cup {Dict([result |-> Dict([name |-> Str(Chars("Rust"))])]),
          Dict([result |-> Dict([value |-> Str(<<>>), name |-> Str(Chars("R"))])]),
          Dict([result |-> Dict([value |-> NoneVal])]),
          Dict([result |-> Dict([value |-> IntVal(<<"3">>)])]),
          Dict([result |-> Str(Chars("Python"))]),
          Dict([technique |-> Str(Chars("GitHub_API"))]),
          Str(Chars("Python"))}

InitLanguages ==
    /\ PipelineIdle
    /\ AnalyzerIdle
    /\ \/ rule_input \in {EmptyDict, Dict([programming_languages |-> Str(Chars("Python"))])}
       \/ \E n \in 0..MaxEntries : \E entries \in [1..n -> LanguageEntries] :
            rule_input = Dict([programming_languages |-> ListVal(entries)])
    /\ rule_called = "none"
    /\ rule_outcome = <<>>

CallExtractLanguages ==
    Call("extract_programming_languages", extract_programming_languages(rule_input))

NextLanguages == CallExtractLanguages

SpecLanguages == InitLanguages /\ [][NextLanguages]_vars

\* The names of the observations of a record: of each entry that is an object
\* with a result object, the "value" of the result or, without one, its "name"
ObservedNames(record) ==
    IF ~Has(record, "programming_languages") \/ ~IsList(record.d.programming_languages)
    THEN {}
    ELSE LET entries == record.d.programming_languages.items
             result_objects == {entries[k].d.result :
                            k \in {j \in 1..Len(entries) :
                                      /\ IsDict(entries[j])
                                      /\ Has(entries[j], "result")
                                      /\ IsDict(entries[j].d.result)}}
         IN  {IF Has(r, "value") THEN r.d.value ELSE r.d.name :
                 r \in {q \in result_objects : Has(q, "value") \/ Has(q, "name")}}

\* The name normalizes to language L of the allow-list
NormalizesTo(name, L) ==
    LET low == Lower(Strip(name))
    IN  CASE L = Chars("Python") -> StartsWith(low, Chars("python"))
          [] L = Chars("C++")    -> low \in {Chars("c++"), Chars("cpp"), Chars("cplusplus")}
          [] OTHER               -> low = Lower(L)

\* ------------------------------------------------------------------------
\* C14: extract_programming_languages returns only members of the allow-list
\* {Python, Java, C++, C, R, Rust}, each at most once, and a language L is
\* returned exactly when the name of some observation normalizes to L; any
\* other name is dropped. The call returns whenever every name is a str or
\* is empty.
\* ------------------------------------------------------------------------
C14_AllowListOnly ==
    rule_called = "extract_programming_languages" =>
        LET names == ObservedNames(rule_input)
            allow == {Chars("Python"), Chars("Java"), Chars("C++"), Chars("C"), Chars("R"),
                      Chars("Rust")}
        IN  IF \E x \in names : Truthy(x) /\ ~IsStr(x)
            THEN rule_outcome[1].raised
            ELSE LET out == rule_outcome[1].val
                 IN  /\ ~rule_outcome[1].raised
                     /\ \A k \in 1..Len(out) : out[k] \in allow
                     /\ \A j, k \in 1..Len(out) : out[j] = out[k] => j = k
                     /\ \A L \in allow :
                          (\E k \in 1..Len(out) : out[k] = L)
                          <=> \E x \in names : IsStr(x) /\ NormalizesTo(x.v, L)

\* Two observations normalize to the same language and are returned once
C14_Witness ==
    /\ rule_called = "extract_programming_languages"
    /\ ~rule_outcome[1].raised
    /\ rule_outcome[1].val = <<Chars("Python")>>
    /\ Len(rule_input.d.programming_languages.items) = 2
    /\ \A k \in 1..2 : rule_input.d.programming_languages.items[k]
                          \in {Dict([result |-> Dict([value |-> Str(n)])]) :
                                  n \in {Chars("Python"), Chars("python3")}}
    /\ rule_input.d.programming_languages.items[1] # rule_input.d.programming_languages.items[2]

\* No code occurs twice in the detector table
NoCodeTwice ==
    \A i, j \in 1..Len(pitfall_detectors) :
        pitfall_detectors[i] = pitfall_detectors[j] => i = j

\* The older main: summary entry i carries the code of detector i
LegacySummaryFollowsTable ==
    /\ Len(legacy_summary_codes) = Len(legacy_pitfall_detectors)
    /\ \A i \in 1..Len(legacy_pitfall_detectors) :
          legacy_summary_codes[i] = legacy_pitfall_detectors[i]

\* ------------------------------------------------------------------------
\* C15: the summary has one entry per rule of the detector table, in the
\* order of the table, and entry i carries the code of detector i; no code
\* occurs twice, so the count and the language counts written under a code
\* are those of the rule with that code, and the checks of a document carry
\* codes of summary entries. The older main has the same correspondence
\* between its table and its summary.
\* ------------------------------------------------------------------------
C15_SummaryFollowsTable ==
    /\ Len(results.entries) = Len(pitfall_detectors)
    /\ \A i \in 1..Len(pitfall_detectors) : results.entries[i].code = pitfall_detectors[i]
    /\ NoCodeTwice
    /\ output_file # <<>> =>
          \A i \in 1..Len(pitfall_detectors) :
              LET under == {k \in 1..Len(output_file[1].entries) :
                               output_file[1].entries[k].code = pitfall_detectors[i]}
                  loaded == {f \in Files : Loaded(f)}
              IN  /\ Cardinality(under) = 1
                  /\ \A k \in under :
                        /\ output_file[1].entries[k].count =
                               Cardinality({f \in loaded : Triggers(i, f)})
                        /\ output_file[1].entries[k].languages = LanguageCounts(i, loaded)
    /\ \A d \in DOMAIN pitfalls_output_dir :
          \A k \in 1..Len(pitfalls_output_dir[d]) :
              \E i \in 1..Len(results.entries) :
                  results.entries[i].code = pitfalls_output_dir[d][k]
    /\ LegacySummaryFollowsTable

\* The summary is written with a warning and a pitfall counted, and a
\* document carries the code of the warning
C15_Witness ==
    /\ output_file # <<>>
    /\ \E i, j \in 1..NumRules :
          /\ output_file[1].entries[i].code \in warning_codes
          /\ output_file[1].entries[j].code \notin warning_codes
          /\ output_file[1].entries[i].count >= 1
          /\ output_file[1].entries[j].count >= 1
          /\ \E d \in DOMAIN pitfalls_output_dir :
                \E k \in 1..Len(pitfalls_output_dir[d]) :
                    pitfalls_output_dir[d][k] = output_file[1].entries[i].code

\* ------------------------------------------------------------------------
\* scripts/p008.py: the older is_local_file_license
\* ------------------------------------------------------------------------

\* is_local_file_license(license_value) of scripts/p008.py: the
\* local_file_patterns searched in license_lower, then the path tests; there
\* is no exemption of license URLs
legacy_is_local_file_license(license_value) ==
    IF ~Truthy(license_value) THEN Ok(FALSE)
    ELSE IF ~IsStr(license_value) THEN Raise      \* .lower() on a non-str
    ELSE
      LET v             == license_value.v
          license_lower == Lower(v)
      IN  IF \/ StartsWith(license_lower, Chars("./"))
             \/ StartsWith(license_lower, Chars("../"))
             \/ \E p \in {Chars("license.md"), Chars("license.txt"), Chars("license"),
                          Chars(".md"), Chars(".txt")} : SearchSuffix(license_lower, p)
             \/ Contains(license_lower, Chars("/license"))
          THEN Ok(TRUE)
          ELSE IF StartsWith(v, Chars("./")) \/ StartsWith(v, Chars("../")) THEN Ok(TRUE)
          ELSE Ok(Contains(v, Chars("/")) \/ Contains(v, <<"\\">>))

\* ------------------------------------------------------------------------
\* detect_pitfalls.py: PitfallAnalyzer._analyze_license_property
\* ------------------------------------------------------------------------

\* The first of the fields identifier, name, url, @id of a license object
\* that is present and truthy, or None
LicenseField(lic) ==
    LET fields == <<"identifier", "name", "url", "@id">>
        found  == {k \in 1..Len(fields) : Has(lic, fields[k]) /\ Truthy(lic.d[fields[k]])}
    IN  IF found = {} THEN NoneVal ELSE lic.d[fields[MinPos(found)]]

\* The loop over a license array from item i on: license_to_check
RECURSIVE LicenseOfArray(_, _, _)
LicenseOfArray(license_value, i, license_to_check) ==
    IF i > Len(license_value) THEN license_to_check
    ELSE LET lic  == license_value[i]
             next == IF IsStr(lic) THEN lic
                     ELSE IF IsDict(lic) /\ LicenseField(lic) # NoneVal THEN LicenseField(lic)
                     ELSE license_to_check
         IN  IF Truthy(next) THEN next ELSE LicenseOfArray(license_value, i + 1, next)

\* license_structure and license_to_check of a truthy license value
LicenseToCheck(license_value) ==
    CASE IsStr(license_value) -> [structure |-> "string", check |-> license_value]
      [] IsDict(license_value) -> [structure |-> "object", check |-> LicenseField(license_value)]
      [] IsList(license_value) ->
           [structure |-> "array", check |-> LicenseOfArray(license_value.items, 1, NoneVal)]
      [] OTHER -> [structure |-> "none", check |-> NoneVal]

\* re.match(pattern, license_to_check, re.IGNORECASE) for some pattern of
\* local_file_patterns
MatchesLicenseFilePattern(license_to_check) ==
    LET low     == Lower(license_to_check)
        slashes == {i \in 1..Len(low) : low[i] = "/"}
    IN  \/ \E name \in {Chars("license"), Chars("copying"), Chars("licence")} :
              \/ SearchWhole(low, name)
              \/ \E ext \in {Chars(".md"), Chars(".txt"), Chars(".rst")} :
                    SearchWhole(low, name \o ext)
        \/ StartsWith(low, Chars("./license"))
        \/ slashes # {} /\ OccursAt(low, Chars("/license"), MinPos(slashes))

\* len(license_to_check.split()) == 1
SingleWord(str) ==
    LET stripped == Strip(str)
    IN  stripped # <<>> /\ \A i \in 1..Len(stripped) : stripped[i] \notin SpaceChars

valid_indicators ==
    {Chars("spdx.org"), Chars("apache"), Chars("mit"), Chars("gpl"), Chars("bsd"),
     Chars("cc0"), Chars("unlicense"), Chars("artistic"), Chars("eclipse"),
     Chars("mozilla"), Chars("zlib"), Chars("isc")}

\* The additional check of a value that no pattern matches
LooksLikeFile(license_to_check) ==
    /\ \/ StartsWith(license_to_check, Chars("./"))
       \/ StartsWith(license_to_check, Chars("../"))
       \/ /\ ~StartsWith(license_to_check, Chars("http"))
          /\ ~StartsWith(license_to_check, Chars("https://"))
          /\ Contains(license_to_check, <<".">>)
          /\ ~StartsWith(license_to_check, Chars("spdx.org"))
          /\ SingleWord(license_to_check)
    /\ ~\E valid_indicator \in valid_indicators :
           Contains(Lower(license_to_check), valid_indicator)

\* _analyze_license_property(codemeta_data) for a dict whose license key is
\* spelled "license": has_pitfall and the analysis
analyze_license_property(codemeta_data) ==
    LET license_value == Get(codemeta_data.d, "license", NoneVal)
        none == [has_license_property |-> FALSE, license_structure |-> "none",
                 points_to_local_file |-> FALSE]
    IN  IF ~Truthy(license_value) THEN [has_pitfall |-> FALSE, analysis |-> none]
        ELSE
          LET found    == LicenseToCheck(license_value)
              analysis == [has_license_property |-> TRUE,
                           license_structure |-> found.structure,
                           points_to_local_file |-> FALSE]
          IN  IF ~Truthy(found.check) \/ ~IsStr(found.check)
              THEN [has_pitfall |-> FALSE, analysis |-> analysis]
              ELSE LET points_to_local_file ==
                           \/ MatchesLicenseFilePattern(found.check.v)
                           \/ LooksLikeFile(found.check.v)
                   IN  [has_pitfall |-> points_to_local_file,
                        analysis |-> [analysis EXCEPT
                                         !.points_to_local_file = points_to_local_file]]

\* ------------------------------------------------------------------------
\* Single calls of the three local-file license rules
\* ------------------------------------------------------------------------
LicenseValues ==
    {Chars("./LICENSE.md"), Chars("../COPYING"), Chars("./docs/MIT.txt"), Chars("LICENSE"),
     Chars("docs/License.txt"), Chars("https://spdx.org/licenses/MIT"),
     Chars("http://opensource.org/licenses/Apache-2.0"),
     Chars("HTTPS://www.gnu.org/licenses/gpl-3.0.txt"), Chars("MIT"), Chars("Apache-2.0"),
     Chars("notes.rst"), <<>>}

\* The shapes of the license property of a codemeta file
LicenseForms == {"string", "identifier", "name", "url", "@id", "array", "array of objects"}

\* The codemeta data with the value in the form
LicenseData(value, form) ==
    LET object(field) == Dict([k \in {field} |-> Str(value)])
    IN  Dict([license |->
               CASE form = "string" -> Str(value)
                 [] form = "array" -> ListVal(<<IntVal(<<"0">>), Str(value)>>)
                 [] form = "array of objects" ->
                      ListVal(<<EmptyDict, Dict([name |-> NoneVal, url |-> Str(value)])>>)
                 [] OTHER -> object(form)])

InitLicense ==
    /\ PipelineIdle
    /\ AnalyzerIdle
    /\ \E value \in LicenseValues, form \in LicenseForms :
          rule_input = [value |-> Str(value), form |-> form]
    /\ rule_called = "none"
    /\ rule_outcome = <<>>

CallPackagedLicense ==
    Call("metacheck/scripts/p008.py", is_local_file_license(rule_input.value))

CallLegacyLicense ==
    Call("scripts/p008.py", legacy_is_local_file_license(rule_input.value))

CallAnalyzerLicense ==
    Call("detect_pitfalls.py",
         Ok(analyze_license_property(LicenseData(rule_input.value.v, rule_input.form)).has_pitfall))

NextLicense ==
    \/ CallPackagedLicense
    \/ CallLegacyLicense
    \/ CallAnalyzerLicense

SpecLicense == InitLicense /\ [][NextLicense]_vars

\* ------------------------------------------------------------------------
\* C16: in each of the three implementations of the local-file license rule
\* a license value that is a relative path (it starts with "./" or "../")
\* triggers the rule, and a license value that starts with the URL of a
\* canonical license site does not.
\* (Refuted: scripts/p008.py has no exemption and triggers on the URL.)
\* ------------------------------------------------------------------------
C16_EveryImplementationAgrees ==
    rule_called # "none" =>
        LET value == rule_input.value.v
            canonical == {Chars("https://spdx.org/licenses/"),
                          Chars("http://opensource.org/licenses/"),
                          Chars("https://www.gnu.org/licenses/")}
        IN  /\ ~rule_outcome[1].raised
            /\ StartsWith(value, Chars("./")) \/ StartsWith(value, Chars("../"))
                  => rule_outcome[1].val
            /\ (\E prefix \in canonical : StartsWith(Lower(value), prefix))
                  => ~rule_outcome[1].val

\* ------------------------------------------------------------------------
\* Regular expressions of the analyzer rules. A pattern is the sequence of
\* its tokens: a repeated character class such as "\\s+" or "[^/]+", an
\* optional character such as "s?", a group such as "(\\.\\d+)?", the end
\* "$", or literal text. A pattern that re.IGNORECASE matches is written in
\* lower case and matched against the lower-cased text
\* ------------------------------------------------------------------------

\* A character class repeated min to max times (max 0: without limit);
\* negated: every character but those of chars
Rep(chars, negated, min, max) == [chars |-> chars, negated |-> negated, min |-> min, max |-> max]

\* The tokens that repeat a character class
RegexClass(token) ==
    CASE token = "\\s*"         -> Rep(SpaceChars, FALSE, 0, 0)
      [] token = "\\s+"         -> Rep(SpaceChars, FALSE, 1, 0)
      [] token = "\\d*"         -> Rep(DigitChars, FALSE, 0, 0)
      [] token = "\\d+"         -> Rep(DigitChars, FALSE, 1, 0)
      [] token = "\\d{4}"       -> Rep(DigitChars, FALSE, 4, 4)
      [] token = "\\d{1,2}"     -> Rep(DigitChars, FALSE, 1, 2)
      [] token = "\\w+"         -> Rep(LetterChars \cup DigitChars \cup {"_"}, FALSE, 1, 0)
      [] token = "[a-zA-Z]"     -> Rep(LetterChars, FALSE, 1, 1)
      [] token = "[a-zA-Z_-]+"  -> Rep(LetterChars \cup {"_", "-"}, FALSE, 1, 0)
      [] token = "[23]"         -> Rep({"2", "3"}, FALSE, 1, 1)
      [] token = "[^/]+"        -> Rep({"/"}, TRUE, 1, 0)
      [] token = ".*"           -> Rep({"\n"}, TRUE, 0, 0)
      [] token \in {"s?", "l?", "/?", "=?", "©?"} -> Rep({SubSeq(token, 1, 1)}, FALSE, 0, 1)
      [] OTHER                  -> Rep({}, FALSE, 0, 0)

\* The tokens that are groups: the pattern in the group, and whether the
\* group may repeat
RegexGroup(token) ==
    CASE token = "(\\.\\d+)?" -> [inner |-> <<".", "\\d+">>, star |-> FALSE]
      [] token = "(\\.\\d+)*" -> [inner |-> <<".", "\\d+">>, star |-> TRUE]
      [] token = "(-\\w+)?"   -> [inner |-> <<"-", "\\w+">>, star |-> FALSE]
      [] OTHER                -> [inner |-> <<>>, star |-> FALSE]

\* The characters a literal token stands for: an escaped character is itself
Unescaped(token) == SelectSeq(Chars(token), LAMBDA c : c # "\\")

\* The tokens of the pattern from token k on match the text at position i
RECURSIVE MatchesAt(_, _, _, _)
MatchesAt(pattern, k, text, i) ==
    IF k > Len(pattern) THEN TRUE
    ELSE
      LET token == pattern[k]
          class == RegexClass(token)
          group == RegexGroup(token)
          left  == Len(text) - i + 1
      IN  CASE class # Rep({}, FALSE, 0, 0) ->
                 \E n \in class.min..(IF class.max = 0 \/ class.max > left
                                      THEN left ELSE class.max) :
                     /\ \A j \in i..(i + n - 1) : (text[j] \in class.chars) # class.negated
                     /\ MatchesAt(pattern, k + 1, text, i + n)
            [] group.inner # <<>> ->
                 \/ MatchesAt(pattern, k + 1, text, i)
                 \/ MatchesAt(group.inner
                                 \o (IF group.star THEN <<token>> ELSE <<>>)
                                 \o SubSeq(pattern, k + 1, Len(pattern)),
                              1, text, i)
            [] token = "$" ->
                 /\ \/ i = Len(text) + 1
                    \/ i = Len(text) /\ text[i] = "\n"
                 /\ MatchesAt(pattern, k + 1, text, i)
            [] OTHER ->
                 /\ OccursAt(text, Unescaped(token), i)
                 /\ MatchesAt(pattern, k + 1, text, i + Len(Unescaped(token)))

\* re.match(pattern, text)
Match(pattern, text) == MatchesAt(pattern, 1, text, 1)

\* re.search(pattern, text)
Search(pattern, text) == \E i \in 1..(Len(text) + 1) : MatchesAt(pattern, 1, text, i)

\* any(re.search(pattern, text) for pattern in patterns)
SearchAny(patterns, text) == \E k \in 1..Len(patterns) : Search(patterns[k], text)

\* The number of lines of content.strip().split('\n') that are not blank
RECURSIVE NonEmptyLines(_)
NonEmptyLines(content) ==
    LET stripped == Strip(content)
        breaks   == {i \in 1..Len(stripped) : stripped[i] = "\n"}
    IN  IF stripped = <<>> THEN 0
        ELSE IF breaks = {} THEN 1
        ELSE 1 + NonEmptyLines(Slice(stripped, MinPos(breaks) + 1, Len(stripped)))

\* ------------------------------------------------------------------------
\* scripts/p020.py: check_copyright_only_license
\* ------------------------------------------------------------------------
copyright_only_patterns ==
    <<<<"year:", "\\s*", "\\d{4}">>,
      <<"copyright", "\\s+", "holder:", "\\s*", "[a-zA-Z]">>,
      <<"author:", "\\s*", "[a-zA-Z]">>,
      <<"copyright", "\\s*", "©?", "\\s*", "\\d{4}">>,
      <<"©", "\\s*", "\\d{4}">>,
      <<"(c)", "\\s*", "\\d{4}">>>>

p020_license_term_patterns ==
    <<<<"permission", "\\s+", "is", "\\s+", "hereby", "\\s+", "granted">>,
      <<"subject", "\\s+", "to", "\\s+", "the", "\\s+", "following", "\\s+", "conditions">>,
      <<"redistribution", "\\s+", "and", "\\s+", "use">>,
      <<"without", "\\s+", "restriction">>,
      <<"without", "\\s+", "warranty">>,
      <<"liability">>,
      <<"terms", "\\s+", "and", "\\s+", "conditions">>,
      <<"licensed", "\\s+", "under">>,
      <<"mit", "\\s+", "license">>,
      <<"apache", "\\s+", "license">>,
      <<"gnu", "\\s+", "general", "\\s+", "public", "\\s+", "license">>,
      <<"bsd", "\\s+", "license">>,
      <<"creative", "\\s+", "commons">>>>

\* check_copyright_only_license(license_content) for any Python value
check_copyright_only_license(license_content) ==
    IF ~Truthy(license_content) THEN Ok(FALSE)
    ELSE IF ~IsStr(license_content) THEN Raise     \* .lower() on a non-str
    ELSE
      LET content_lower      == Lower(license_content.v)
          has_copyright_info == SearchAny(copyright_only_patterns, content_lower)
          has_license_terms  == SearchAny(p020_license_term_patterns, content_lower)
      IN  IF has_copyright_info /\ ~has_license_terms
             /\ NonEmptyLines(license_content.v) <= 10
          THEN Ok(TRUE)
          ELSE Ok(/\ Search(<<"year:", "\\s*", "\\d{4}">>, content_lower)
                  /\ Search(<<"copyright", "\\s+", "holder:">>, content_lower))

\* ------------------------------------------------------------------------
\* detect_pitfalls.py: PitfallAnalyzer._analyze_license_copyright_only
\* ------------------------------------------------------------------------
copyright_patterns ==
    <<<<"copyright", "\\s+", "(c)", "\\s+", "\\d{4}">>,
      <<"copyright", "\\s+", "©", "\\s+", "\\d{4}">>,
      <<"copyright", "\\s+", "\\d{4}">>,
      <<"©", "\\s+", "\\d{4}">>,
      <<"(c)", "\\s+", "\\d{4}">>,
      <<"year:", "\\s*", "\\d{4}">>,
      <<"copyright", "\\s+", "holder:", "\\s*", "[a-zA-Z]">>,
      <<"author:", "\\s*", "[a-zA-Z]">>>>

license_term_patterns ==
    <<<<"mit", "\\s+", "license">>,
      <<"apache", "\\s+", "license">>,
      <<"gnu", "\\s+", "general", "\\s+", "public", "\\s+", "license">>,
      <<"bsd", "\\s+", "license">>,
      <<"creative", "\\s+", "commons">>,
      <<"mozilla", "\\s+", "public", "\\s+", "license">>,
      <<"permission", "\\s+", "is", "\\s+", "hereby", "\\s+", "granted">>,
      <<"subject", "\\s+", "to", "\\s+", "the", "\\s+", "following", "\\s+", "conditions">>,
      <<"redistribution", "\\s+", "and", "\\s+", "use">>,
      <<"without", "\\s+", "restriction">>,
      <<"including", "\\s+", "without", "\\s+", "limitation">>,
      <<"as", "\\s+", "is", "\\s+", "basis">>,
      <<"without", "\\s+", "warranty">>,
      <<"liable", "\\s+", "for", "\\s+", "any", "\\s+", "damages">>,
      <<"terms", "\\s+", "and", "\\s+", "conditions">>,
      <<"you", "\\s+", "may", "\\s+", "not", "\\s+", "use", "\\s+", "this", "\\s+", "file",
        "\\s+", "except">>,
      <<"licensed", "\\s+", "under">>,
      <<"this", "\\s+", "license">>,
      <<"the", "\\s+", "above", "\\s+", "copyright", "\\s+", "notice">>,
      <<"spdx-license-identifier">>,
      <<"apache-2.0">>,
      <<"mit">>,
      <<"gpl-", "[23]", ".0">>,
      <<"bsd-", "[23]", "-clause">>,
      <<"cc0-1.0">>,
      <<"disclaimer", "\\s+", "of", "\\s+", "warranty">>,
      <<"limitation", "\\s+", "of", "\\s+", "liability">>,
      <<"use", "\\s+", "is", "\\s+", "subject", "\\s+", "to", "\\s+", "license", "\\s+",
        "terms">>,
      <<"all", "\\s+", "rights", "\\s+", "reserved">>,
      <<"granted", "\\s+", "to", "\\s+", "you", "\\s+", "under">>,
      <<"permission", "\\s+", "to", "\\s+", "use">>,
      <<"permission", "\\s+", "to", "\\s+", "modify">>,
      <<"permission", "\\s+", "to", "\\s+", "distribute">>>>

\* content_type of a text with the two flags and its non-blank lines
ContentType(has_copyright_info, has_license_terms, non_empty_lines) ==
    LET only == has_copyright_info /\ ~has_license_terms
    IN  IF non_empty_lines <= 5
        THEN IF only THEN "copyright_only_short"
             ELSE IF ~has_copyright_info /\ ~has_license_terms THEN "minimal_content"
             ELSE "short_with_license"
        ELSE IF non_empty_lines <= 20
        THEN IF only THEN "copyright_only_medium" ELSE "medium_content"
        ELSE IF only THEN "copyright_only_long" ELSE "full_license"

\* _analyze_license_copyright_only(license_content) for a str or None:
\* has_pitfall, the two flags and content_type of the analysis (the lists of
\* matches and categories of the analysis do not bear on has_pitfall)
analyze_license_copyright_only(license_content) ==
    IF ~Truthy(license_content) \/ Strip(license_content.v) = <<>>
    THEN [has_pitfall |-> FALSE, has_copyright_info |-> FALSE, has_license_terms |-> FALSE,
          content_type |-> "empty"]
    ELSE
      LET content_lower      == Lower(license_content.v)
          has_copyright_info == SearchAny(copyright_patterns, content_lower)
          has_license_terms  == SearchAny(license_term_patterns, content_lower)
      IN  [has_pitfall |-> has_copyright_info /\ ~has_license_terms,
           has_copyright_info |-> has_copyright_info,
           has_license_terms |-> has_license_terms,
           content_type |-> ContentType(has_copyright_info, has_license_terms,
                                        NonEmptyLines(license_content.v))]

\* ------------------------------------------------------------------------
\* Single calls of the copyright-only license rules
\* ------------------------------------------------------------------------
CopyrightHeaders ==
    {Chars("YEAR: 2017\nCOPYRIGHT HOLDER: Adam H. Sparks"), Chars("Copyright (c) 2017 Jane Doe"),
     Chars("Copyright © 2019 ACME"), Chars("(C)2020 J"), Chars("Author: Jane"),
     Chars("Year: 17"), Chars("Some notes"), <<>>}

LicenseBodies ==
    {<<>>, Chars("Permission is hereby granted, free of charge"),
     Chars("Licensed under the MIT License"), Chars("limited  LIABILITY"),
     Chars("All rights reserved."), Chars("Apache-2.0"), Chars("see the file"),
     Chars("J. Smith")}

\* Ten more lines
TenLines == Chars("\n1\n2\n3\n4\n5\n6\n7\n8\n9\n10")

InitCopyright ==
    /\ PipelineIdle
    /\ AnalyzerIdle
    /\ \E header \in CopyrightHeaders, body \in LicenseBodies, more \in {<<>>, TenLines} :
          rule_input = Str(header \o <<"\n">> \o body \o more)
    /\ rule_called = "none"
    /\ rule_outcome = <<>>

CallCheckCopyrightOnly ==
    Call("check_copyright_only_license", check_copyright_only_license(rule_input))

CallAnalyzeCopyrightOnly ==
    Call("_analyze_license_copyright_only",
         Ok(analyze_license_copyright_only(rule_input).has_pitfall))

NextCopyright ==
    \/ CallCheckCopyrightOnly
    \/ CallAnalyzeCopyrightOnly

SpecCopyright == InitCopyright /\ [][NextCopyright]_vars

\* ------------------------------------------------------------------------
\* C17: check_copyright_only_license returns true exactly when the text
\* matches a copyright marker and matches no license-term marker; so it
\* never returns true for a text with a license-term marker. The same holds
\* of _analyze_license_copyright_only with its own markers.
\* (Refuted for check_copyright_only_license: the line limit and the template
\* special case.)
\* ------------------------------------------------------------------------
C17_CopyrightAndNoTerms ==
    LET text == Lower(rule_input.v)
    IN  /\ rule_called = "check_copyright_only_license" =>
              /\ ~rule_outcome[1].raised
              /\ rule_outcome[1].val <=>
                    /\ SearchAny(copyright_only_patterns, text)
                    /\ ~SearchAny(p020_license_term_patterns, text)
        /\ rule_called = "_analyze_license_copyright_only" =>
              (rule_outcome[1].val <=>
                    /\ SearchAny(copyright_patterns, text)
                    /\ ~SearchAny(license_term_patterns, text))

\* ------------------------------------------------------------------------
\* detect_pitfalls.py: PitfallAnalyzer._analyze_software_version
\* ------------------------------------------------------------------------
branch_name_patterns ==
    <<[pattern |-> <<"master", "$">>,      branch_type |-> "main_branch"],
      [pattern |-> <<"main", "$">>,        branch_type |-> "main_branch"],
      [pattern |-> <<"trunk", "$">>,       branch_type |-> "main_branch"],
      [pattern |-> <<"develop", "$">>,     branch_type |-> "development_branch"],
      [pattern |-> <<"development", "$">>, branch_type |-> "development_branch"],
      [pattern |-> <<"dev", "$">>,         branch_type |-> "development_branch"],
      [pattern |-> <<"devel", "$">>,       branch_type |-> "development_branch"],
      [pattern |-> <<"feature", ".*">>,    branch_type |-> "feature_branch"],
      [pattern |-> <<"feat", ".*">>,       branch_type |-> "feature_branch"],
      [pattern |-> <<"topic", ".*">>,      branch_type |-> "topic_branch"],
      [pattern |-> <<"fix", ".*">>,        branch_type |-> "fix_branch"],
      [pattern |-> <<"bugfix", ".*">>,     branch_type |-> "fix_branch"],
      [pattern |-> <<"hotfix", ".*">>,     branch_type |-> "fix_branch"],
      [pattern |-> <<"release", ".*">>,    branch_type |-> "release_branch"],
      [pattern |-> <<"rel", ".*">>,        branch_type |-> "release_branch"],
      [pattern |-> <<"stable", "$">>,      branch_type |-> "stable_branch"],
      [pattern |-> <<"latest", "$">>,      branch_type |-> "latest_branch"],
      [pattern |-> <<"current", "$">>,     branch_type |-> "current_branch"],
      [pattern |-> <<"head", "$">>,        branch_type |-> "head_branch"],
      [pattern |-> <<"tip", "$">>,         branch_type |-> "tip_branch"],
      [pattern |-> <<".*", "/", ".*">>,    branch_type |-> "path_like_branch"]>>

proper_version_patterns ==
    <<<<"\\d+", ".", "\\d+", "(\\.\\d+)?">>,
      <<"v", "\\d+", ".", "\\d+", "(\\.\\d+)?">>,
      <<"\\d+", ".", "\\d+", ".", "\\d+", "(-\\w+)?", "$">>,
      <<"\\d{4}", ".", "\\d{1,2}", "(\\.\\d+)?", "$">>,
      <<"\\d+", "[a-zA-Z]", "\\d*", "$">>,
      <<"\\d+", "(\\.\\d+)*", "[a-zA-Z]", "\\d*", "$">>>>

\* A rule in which every value that is no proper version is a branch name
AnyLetters(software_version) == TRUE

\* re.match(r'^[a-zA-Z_-]+$', software_version)
OnlyLetters(software_version) == Match(<<"[a-zA-Z_-]+", "$">>, software_version)

\* _analyze_software_version(codemeta_data) for a dict whose version key is
\* spelled "softwareVersion": has_pitfall and the analysis
analyze_software_version(codemeta_data) ==
    LET software_version == Get(codemeta_data.d, "softwareVersion", NoneVal)
        absent == [has_software_version |-> FALSE, is_branch_name |-> FALSE,
                   detected_branch_type |-> "None"]
        other  == [absent EXCEPT !.has_software_version = TRUE]
    IN  IF ~Truthy(software_version) THEN [has_pitfall |-> FALSE, analysis |-> absent]
        ELSE IF ~IsStr(software_version) THEN [has_pitfall |-> FALSE, analysis |-> other]
        ELSE
          LET version_lower == Strip(Lower(software_version.v))
              matching == {k \in 1..Len(branch_name_patterns) :
                              Match(branch_name_patterns[k].pattern, version_lower)}
              is_proper_version ==
                  \E k \in 1..Len(proper_version_patterns) :
                      Match(proper_version_patterns[k], software_version.v)
          IN  IF matching # {}
              THEN [has_pitfall |-> TRUE,
                    analysis |-> [other EXCEPT
                                     !.is_branch_name = TRUE,
                                     !.detected_branch_type =
                                         branch_name_patterns[MinPos(matching)].branch_type]]
              ELSE IF ~is_proper_version /\ OnlyLetters(software_version.v)
              THEN [has_pitfall |-> TRUE,
                    analysis |-> [other EXCEPT !.is_branch_name = TRUE,
                                               !.detected_branch_type = "custom_branch"]]
              ELSE [has_pitfall |-> FALSE, analysis |-> other]

\* softwareVersion values: branch names, custom names and version numbers,
\* each alone and followed by a suffix
VersionStems ==
    {Chars("master"), Chars("Main"), Chars("develop"), Chars("feature"),
     Chars("rel"), Chars("stable"), Chars("nightly"), Chars("my_branch"),
     Chars("1.2.3"), Chars("1.2"), Chars("v1.0"), Chars("2"), Chars("2023.1"),
     Chars("1a"), Chars("build 7")}

VersionSuffixes ==
    {<<>>, Chars("/x"), Chars("-rc"), <<"\n">>, <<" ">>, <<"1">>}

VersionValues ==
    {Str(stem \o suffix) : stem \in VersionStems, suffix \in VersionSuffixes}
        \cup {NoneVal, Str(<<>>), IntVal(<<"2">>), ListVal(<<Str(Chars("master"))>>)}

InitVersion ==
    /\ PipelineIdle
    /\ AnalyzerIdle
    /\ \E software_version \in VersionValues :
          rule_input = Dict([softwareVersion |-> software_version])
    /\ rule_called = "none"
    /\ rule_outcome = <<>>

CallAnalyzeSoftwareVersion ==
    Call("_analyze_software_version", analyze_software_version(rule_input))

NextVersion == CallAnalyzeSoftwareVersion

SpecVersion == InitVersion /\ [][NextVersion]_vars

\* The value as the claims read it
VersionText == rule_input.d["softwareVersion"].v

\* The rule has run on a non-empty string
VersionChecked ==
    /\ rule_called = "_analyze_software_version"
    /\ IsStr(rule_input.d["softwareVersion"])
    /\ Truthy(rule_input.d["softwareVersion"])

\* The types of the branch-name table rows the lower-cased, stripped value matches
MatchedBranchRows ==
    {k \in 1..Len(branch_name_patterns) :
        Match(branch_name_patterns[k].pattern, Strip(Lower(VersionText)))}

VersionLike ==
    \E k \in 1..Len(proper_version_patterns) :
        Match(proper_version_patterns[k], VersionText)

\* Only letters, underscores and dashes, a final newline aside
LettersUnderscoresDashes ==
    LET text == IF Len(VersionText) > 0 /\ VersionText[Len(VersionText)] = "\n"
                THEN SubSeq(VersionText, 1, Len(VersionText) - 1)
                ELSE VersionText
    IN  /\ Len(text) > 0
        /\ \A i \in 1..Len(text) : text[i] \in LetterChars \cup {"_", "-"}

AnyKeyLowerIn(item, names) ==
    \E key \in DOMAIN item.d : Lower(Chars(key)) \in {Chars(name) : name \in names}

\* The value of the first key of codemeta_data whose lower-cased spelling is
\* in names, None without one (the dicts drawn hold one spelling at most)
PropertyIn(codemeta_data, names) ==
    LET found == {key \in DOMAIN codemeta_data.d :
                     Lower(Chars(key)) \in {Chars(name) : name \in names}}
    IN  IF found = {} THEN NoneVal ELSE codemeta_data.d[CHOOSE key \in found : TRUE]

\* key.isdigit()
KeyIsDigit(key) == Len(key) > 0 /\ \A i \in 1..Len(key) : IsDigit(SubSeq(key, i, i))

\* The keys that give a language, and a requirement, its version
language_version_keys == {"version", "versionrequirement", "softwareversion"}

requirement_version_keys == {"version", "softwareversion", "applicationversion"}

\* has_version of one requirement: a string requirement or any other
\* non-dict value is counted as lacking a version
RequirementHasVersion(req) ==
    IsDict(req) /\ AnyKeyLowerIn(req, requirement_version_keys)

\* structure_type of softwareRequirements
RequirementsStructure(software_reqs) ==
    IF IsList(software_reqs) THEN "list"
    ELSE IF IsDict(software_reqs)
    THEN IF \E key \in DOMAIN software_reqs.d :
               KeyIsDigit(key) \/ key = "SystemRequirements"
         THEN "numbered_object" ELSE "single_object"
    ELSE "string_or_other"

\* requirements_list, as a function from positions (or from the keys of a
\* numbered object) to requirements
requirements_list(software_reqs) ==
    CASE RequirementsStructure(software_reqs) = "list" -> software_reqs.items
      [] RequirementsStructure(software_reqs) = "numbered_object" ->
            [key \in {k \in DOMAIN software_reqs.d :
                         k # "SystemRequirements" /\ software_reqs.d[k] # NoneVal}
                |-> software_reqs.d[key]]
      [] OTHER -> <<software_reqs>>

\* _analyze_software_requirements(codemeta_data): has_pitfall and the counts
analyze_software_requirements(codemeta_data) ==
    LET software_reqs == PropertyIn(codemeta_data,
                                    {"softwarerequirements", "software_requirements"})
        reqs    == requirements_list(software_reqs)
        without == {k \in DOMAIN reqs : ~RequirementHasVersion(reqs[k])}
    IN  IF ~Truthy(software_reqs)
        THEN [has_pitfall |-> FALSE, present |-> FALSE, structure_type |-> "none",
              total |-> 0, without_version |-> 0]
        ELSE [has_pitfall |-> without # {}, present |-> TRUE,
              structure_type |-> RequirementsStructure(software_reqs),
              total |-> Cardinality(DOMAIN reqs),
              without_version |-> Cardinality(without)]

version_patterns ==
    <<<<".*", "\\s+", "\\d+", ".", "\\d+">>,
      <<".*", "\\s+", "v", "\\d+", ".", "\\d+">>,
      <<".*", "\\s+", ">", "=?", "\\s*", "\\d+", ".", "\\d+">>,
      <<".*", "\\s+", "(", "\\d+", ".", "\\d+", ")">>,
      <<".*", "\\d+", ".", "\\d+", ".*">>>>

\* has_version of one language; re.IGNORECASE by matching the lower-cased text
LanguageHasVersion(lang) ==
    IF IsDict(lang) THEN AnyKeyLowerIn(lang, language_version_keys)
    ELSE IF IsStr(lang) THEN SearchAny(version_patterns, Lower(lang.v))
    ELSE FALSE

\* structure_type of programmingLanguage
LanguagesStructure(programming_languages) ==
    IF IsList(programming_languages) THEN "list"
    ELSE IF IsStr(programming_languages) THEN "string"
    ELSE IF IsDict(programming_languages) THEN "object"
    ELSE "other"

languages_list(programming_languages) ==
    IF IsList(programming_languages) THEN programming_languages.items
    ELSE <<programming_languages>>

\* _analyze_programming_languages_versions(codemeta_data): has_pitfall and
\* the counts
analyze_programming_languages_versions(codemeta_data) ==
    LET programming_languages ==
            PropertyIn(codemeta_data, {"programminglanguage", "programming_language",
                                       "programminglanguages"})
        langs   == languages_list(programming_languages)
        without == {k \in DOMAIN langs : ~LanguageHasVersion(langs[k])}
    IN  IF ~Truthy(programming_languages)
        THEN [has_pitfall |-> FALSE, present |-> FALSE, structure_type |-> "none",
              total |-> 0, without_version |-> 0]
        ELSE [has_pitfall |-> without # {}, present |-> TRUE,
              structure_type |-> LanguagesStructure(programming_languages),
              total |-> Cardinality(DOMAIN langs),
              without_version |-> Cardinality(without)]

\* Requirement and language items: strings and objects, with and without a
\* version
VersionItems ==
    {Str(Chars("numpy")), Str(Chars("numpy 1.21.0")), Str(Chars("Python V3")),
     Dict([name |-> Str(Chars("numpy"))]),
     Dict([name |-> Str(Chars("numpy")), version |-> Str(Chars("1.21"))]),
     Dict([name |-> Str(Chars("numpy")), applicationVersion |-> Str(Chars("1.21"))]),
     Dict([name |-> Str(Chars("numpy")), versionRequirement |-> Str(Chars("1.21"))])}

\* The values of the property: one item, a list of up to two items, an
\* object with numbered keys, and the absent and empty values
VersionPropertyValues ==
    VersionItems
        \cup {ListVal(<<>>), NoneVal, Str(<<>>)}
        \cup {ListVal(<<item>>) : item \in VersionItems}
        \cup {ListVal(<<first, second>>) : first \in VersionItems, second \in VersionItems}
        \cup {Dict(("1" :> first) @@ ("2" :> second)) :
                 first \in VersionItems, second \in VersionItems \cup {NoneVal}}

InitVersionPresence ==
    /\ PipelineIdle
    /\ AnalyzerIdle
    /\ \E value \in VersionPropertyValues :
          rule_input = Dict([softwareRequirements |-> value,
                             programmingLanguage |-> value])
    /\ rule_called = "none"
    /\ rule_outcome = <<>>

CallAnalyzeSoftwareRequirements ==
    Call("_analyze_software_requirements", analyze_software_requirements(rule_input))

CallAnalyzeProgrammingLanguagesVersions ==
    Call("_analyze_programming_languages_versions",
         analyze_programming_languages_versions(rule_input))

NextVersionPresence ==
    \/ CallAnalyzeSoftwareRequirements
    \/ CallAnalyzeProgrammingLanguagesVersions

SpecVersionPresence == InitVersionPresence /\ [][NextVersionPresence]_vars

\* An item has a version, as C19 puts it: an object with one of the four
\* keys, or a string with embedded digits.digits
ItemHasVersion(item) ==
    \/ /\ IsDict(item)
       /\ AnyKeyLowerIn(item, {"version", "softwareversion", "applicationversion",
                               "versionrequirement"})
    \/ /\ IsStr(item)
       /\ Search(<<"\\d+", ".", "\\d+">>, item.v)

\* Present, and an item of the normalized items lacks a version
SomeItemLacksVersion(value, items) ==
    /\ Truthy(value)
    /\ \E k \in DOMAIN items : ~ItemHasVersion(items[k])

\* ------------------------------------------------------------------------
\* C19: the software-requirements rule and the programming-language version
\* rule each trigger exactly when the property is present and one of its
\* normalized items lacks a version, an item having a version if it is an
\* object with a key case-insensitively in {version, softwareversion,
\* applicationversion, versionrequirement} or a string with an embedded
\* version number; both rules apply this one test.
\* (Refuted: the requirements rule counts every string as lacking a version
\* and does not read versionRequirement; the languages rule does not read
\* applicationVersion.)
\* ------------------------------------------------------------------------
C19_SameVersionTest ==
    LET value == rule_input.d["softwareRequirements"]
    IN  /\ rule_called = "_analyze_software_requirements" =>
              (rule_outcome[1].has_pitfall
                  <=> SomeItemLacksVersion(value, requirements_list(value)))
        /\ rule_called = "_analyze_programming_languages_versions" =>
              (rule_outcome[1].has_pitfall
                  <=> SomeItemLacksVersion(value, languages_list(value)))

\* ------------------------------------------------------------------------
\* detect_pitfalls.py: PitfallAnalyzer._analyze_code_repository_homepage_url
\* ------------------------------------------------------------------------
homepage_patterns ==
    <<<<"http", "s?", "://", "[^/]+", "\\.org", "/?", "$">>,
      <<"http", "s?", "://www\\.", "[^/]+", "\\.org", "/?", "$">>,
      <<"http", "s?", "://", "[^/]+", "\\.com", "/?", "$">>,
      <<"http", "s?", "://www\\.", "[^/]+", "\\.com", "/?", "$">>,
      <<"http", "s?", "://", "[^/]+", "\\.net", "/?", "$">>,
      <<"http", "s?", "://www\\.", "[^/]+", "\\.net", "/?", "$">>,
      <<"http", "s?", "://", "[^/]+", "\\.readthedocs\\.io", "/?", "$">>,
      <<"http", "s?", "://", "[^/]+", "\\.github\\.io", "/?", "$">>,
      <<"http", "s?", "://docs\\.", "[^/]+", "/?", "$">>,
      <<"http", "s?", "://documentation\\.", "[^/]+", "/?", "$">>,
      <<"http", "s?", "://", "[^/]+", "/index\\.htm", "l?", "$">>,
      <<"http", "s?", "://", "[^/]+", "/home", "/?", "$">>,
      <<"http", "s?", "://", "[^/]+", "/about", "/?", "$">>,
      <<"http", "s?", "://", "[^/]+", "/?", "$">>,
      <<"http", "s?", "://", "[^/]+", "\\.linkedin\\.com/", ".*">>,
      <<"http", "s?", "://twitter\\.com/", "[^/]+", "/?", "$">>,
      <<"http", "s?", "://", "[^/]+", "\\.academia\\.edu/", ".*">>,
      <<"http", "s?", "://orcid\\.org/", ".*">>,
      <<"http", "s?", "://github\\.com/", "[^/]+", "/?", "$">>,
      <<"http", "s?", "://gitlab\\.com/", "[^/]+", "/?", "$">>,
      <<"http", "s?", "://bitbucket\\.org/", "[^/]+", "/?", "$">>>>

\* Only the .git and SSH forms count as repositories
ValidRepoPatternsGitOnly ==
    <<<<"http", "s?", "://", ".*", "\\.git", "$">>,
      <<"git@", ".*", ":", ".*">>>>

valid_repo_patterns ==
    <<<<"http", "s?", "://github\\.com/", "[^/]+", "/", "[^/]+">>,
      <<"http", "s?", "://gitlab\\.com/", "[^/]+", "/", "[^/]+">>,
      <<"http", "s?", "://", ".*", "\\.git", "$">>,
      <<"git@", ".*", ":", ".*">>>>

\* The text of a pattern, as the code reads it
RECURSIVE PatternText(_)
PatternText(pattern) ==
    IF pattern = <<>> THEN <<>> ELSE Chars(pattern[1]) \o PatternText(Tail(pattern))

\* analysis["detected_type"] of a matching homepage pattern
DetectedType(pattern) ==
    LET text == PatternText(pattern)
    IN  IF \/ Contains(text, Chars("readthedocs"))
           \/ Contains(text, Chars("docs"))
           \/ Contains(text, Chars("documentation"))
        THEN "documentation_site"
        ELSE IF Contains(text, Chars("github.io")) THEN "github_pages"
        ELSE IF \E social \in {"linkedin", "twitter", "academia", "orcid"} :
                    Contains(text, Chars(social))
        THEN "social_profile"
        ELSE IF \/ Contains(text, Chars("/home"))
                \/ Contains(text, Chars("/about"))
                \/ Contains(text, Chars("/index"))
        THEN "homepage_page"
        ELSE IF EndsWith(text, Chars("/?$")) THEN "domain_root"
        ELSE "homepage"

\* _analyze_code_repository_homepage_url(codemeta_data); re.IGNORECASE by
\* matching the lower-cased value
analyze_code_repository_homepage_url(codemeta_data) ==
    LET code_repo_value == PropertyIn(codemeta_data, {"coderepository", "code_repository",
                                                      "repository", "repo"})
        result(has_code_repository, points_to_homepage, detected_type) ==
            [has_pitfall |-> points_to_homepage,
             analysis |-> [has_code_repository |-> has_code_repository,
                           points_to_homepage |-> points_to_homepage,
                           detected_type |-> detected_type]]
    IN  IF ~Truthy(code_repo_value) THEN result(FALSE, FALSE, "None")
        ELSE IF ~IsStr(code_repo_value) THEN result(TRUE, FALSE, "None")
        ELSE
          LET lowered  == Lower(code_repo_value.v)
              matching == {k \in 1..Len(homepage_patterns) :
                              Match(homepage_patterns[k], lowered)}
              is_valid_repo == \E k \in 1..Len(valid_repo_patterns) :
                                  Match(valid_repo_patterns[k], lowered)
          IN  IF matching # {}
              THEN result(TRUE, TRUE, DetectedType(homepage_patterns[MinPos(matching)]))
              ELSE IF /\ ~is_valid_repo
                      /\ \/ StartsWith(code_repo_value.v, Chars("http://"))
                         \/ StartsWith(code_repo_value.v, Chars("https://"))
              THEN result(TRUE, TRUE, "non_repository_url")
              ELSE result(TRUE, FALSE, "None")

\* codeRepository values: a scheme, a host and a path
UrlSchemes == {Chars("https://"), Chars("http://"), Chars("HTTPS://")}

UrlHosts ==
    {Chars("github.com"), Chars("GitHub.com"), Chars("gitlab.com"),
     Chars("bitbucket.org"), Chars("acme.org"), Chars("www.acme.com"),
     Chars("acme.readthedocs.io"), Chars("acme.github.io"), Chars("docs.acme.dev"),
     Chars("orcid.org"), Chars("example.dev")}

UrlPaths ==
    {<<>>, Chars("/"), Chars("/acme"), Chars("/acme/"), Chars("/acme/tool"),
     Chars("/acme/tool/tree/main"), Chars("/acme/tool.git"), Chars("/index.html"),
     Chars("/about")}

InitHomepage ==
    /\ PipelineIdle
    /\ AnalyzerIdle
    /\ \E scheme \in UrlSchemes, host \in UrlHosts, path \in UrlPaths :
          rule_input = Dict([codeRepository |-> Str(scheme \o host \o path)])
    /\ rule_called = "none"
    /\ rule_outcome = <<>>

CallAnalyzeCodeRepositoryHomepageUrl ==
    Call("_analyze_code_repository_homepage_url",
         analyze_code_repository_homepage_url(rule_input))

NextHomepage == CallAnalyzeCodeRepositoryHomepageUrl

SpecHomepage == InitHomepage /\ [][NextHomepage]_vars

\* url.split('/')
RECURSIVE Segments(_)
Segments(url) ==
    LET slashes == {i \in 1..Len(url) : url[i] = "/"}
    IN  IF slashes = {} THEN <<url>>
        ELSE <<Slice(url, 1, MinPos(slashes) - 1)>>
                 \o Segments(Slice(url, MinPos(slashes) + 1, Len(url)))

UrlSegments == Segments(Lower(rule_input.d["codeRepository"].v))

HttpUrl ==
    /\ Len(UrlSegments) >= 3
    /\ UrlSegments[1] \in {Chars("http:"), Chars("https:")}
    /\ UrlSegments[2] = <<>>

\* <forge>/<owner> or <forge>/<owner>/ on a forge
ForgeOrganizationRoot ==
    /\ HttpUrl
    /\ UrlSegments[3] \in {Chars("github.com"), Chars("gitlab.com"), Chars("bitbucket.org")}
    /\ \/ Len(UrlSegments) = 4 /\ UrlSegments[4] # <<>>
       \/ Len(UrlSegments) = 5 /\ UrlSegments[4] # <<>> /\ UrlSegments[5] = <<>>

\* https://github.com/<owner>/<repo>, with or without further segments
GithubRepository ==
    /\ HttpUrl
    /\ UrlSegments[3] = Chars("github.com")
    /\ Len(UrlSegments) >= 5
    /\ UrlSegments[4] # <<>>
    /\ UrlSegments[5] # <<>>

CitationTechniques == {Chars("code_parser"), Chars("file_exploration")}

CitationSources ==
    {Chars("repo/codemeta.json"), Chars("repo/CITATION.cff"), Chars("repo/README.md")}

PublicationValues == {Str(Chars("A paper")), Str(Chars("https://doi.org/10.5281/zenodo.1"))}

PublicationEntries ==
    {Obs(technique, source, value) :
        technique \in CitationTechniques, source \in CitationSources,
        value \in PublicationValues}

\* What the record holds besides reference_publication: nothing, a title
\* read from CITATION.cff, a name read from CITATION.cff
CitationCompanions ==
    {[k \in {} |-> NoneVal],
     [title |-> ListVal(<<Obs(Chars("file_exploration"), Chars("repo/CITATION.cff"),
                              Str(Chars("mytool")))>>)],
     [name  |-> ListVal(<<Obs(Chars("file_exploration"), Chars("repo/CITATION.cff"),
                              Str(Chars("mytool")))>>)]}

InitCitation ==
    /\ PipelineIdle
    /\ AnalyzerIdle
    /\ \E n \in 0..MaxEntries : \E s \in [1..n -> PublicationEntries] :
          \E companion \in CitationCompanions :
              rule_input = Dict([k \in {"reference_publication"} \cup DOMAIN companion |->
                                    IF k = "reference_publication" THEN ListVal(s)
                                    ELSE companion[k]])
    /\ rule_called = "none"
    /\ rule_outcome = <<>>

CallDetectCitationMissingReference ==
    Call("detect_citation_missing_reference_publication_pitfall",
         detect_citation_missing_reference_publication_pitfall(rule_input, 0))

NextCitation == CallDetectCitationMissingReference

SpecCitation == InitCitation /\ [][NextCitation]_vars

\* The observations of a category of the record whose source names the file
SourcedFrom(category, file) ==
    IF category \notin DOMAIN rule_input.d THEN {}
    ELSE {k \in 1..Len(rule_input.d[category].items) :
             Contains(rule_input.d[category].items[k].d.source.v, Chars(file))}

\* ------------------------------------------------------------------------
\* C21: the CITATION.cff-missing-referencePublication rule triggers exactly
\* when the record has a reference_publication observation sourced from
\* codemeta.json, CITATION.cff is the source of some observation of the
\* record, and no reference_publication observation is sourced from
\* CITATION.cff.
\* (Refuted: the rule reads only code_parser observations of
\* reference_publication, and looks for CITATION.cff only under authors,
\* title, description, version and license.)
\* ------------------------------------------------------------------------
C21_PresencePerSource ==
    rule_called = "detect_citation_missing_reference_publication_pitfall" =>
        /\ ~rule_outcome[1].raised
        /\ rule_outcome[1].val.has_pitfall <=>
              /\ SourcedFrom("reference_publication", "codemeta.json") # {}
              /\ \E category \in DOMAIN rule_input.d :
                    SourcedFrom(category, "CITATION.cff") # {}
              /\ SourcedFrom("reference_publication", "CITATION.cff") = {}

\* ------------------------------------------------------------------------
\* Single calls of detect_outdated_download_url_pitfall
\* ------------------------------------------------------------------------
DownloadUrls ==
    {Chars("https://github.com/a/b/archive/v1.2.3.tar.gz"),
     Chars("https://github.com/a/b/archive/v1.2.3"),
     Chars("https://github.com/a/b/archive/1.2.3/"),
     Chars("https://x.org/download/v1.2.3/tool.jar"),
     Chars("https://x.org/tool-1.2.3.zip"),
     Chars("https://x.org/tool.zip")}

DownloadOrigins ==
    {<<Chars("code_parser"), Chars("repo/codemeta.json")>>,
     <<Chars("file_exploration"), Chars("repo/README.md")>>}

\* The result of the first release: a tag, a name, both or neither
ReleaseResults ==
    {Dict([tag |-> Str(tag)]) : tag \in {Chars("v1.2.3"), Chars("1.2.3"), Chars("v1.3.0")}}
        \cup {Dict([tag |-> NoneVal, name |-> Str(name)]) :
                 name \in {Chars("Release v1.2.3"), Chars("Release 1.3.0"),
                           Chars("First release")}}
        \cup {EmptyDict}

\* releases: absent, empty, or the first release followed by an older one
ReleaseLists ==
    {<<>>} \cup {<<Dict([result |-> r]), Dict([result |-> Dict([tag |-> Str(Chars("v0.9.0"))])])>> :
                    r \in ReleaseResults}

InitDownload ==
    /\ PipelineIdle
    /\ AnalyzerIdle
    /\ \E url \in DownloadUrls, origin \in DownloadOrigins, releases \in ReleaseLists :
          \E with_releases \in BOOLEAN :
              rule_input =
                  IF with_releases
                  THEN Dict([download_url |-> ListVal(<<Obs(origin[1], origin[2], Str(url))>>),
                             releases |-> ListVal(releases)])
                  ELSE Dict([download_url |-> ListVal(<<Obs(origin[1], origin[2], Str(url))>>)])
    /\ rule_called = "none"
    /\ rule_outcome = <<>>

CallDetectOutdatedDownloadUrl ==
    Call("detect_outdated_download_url_pitfall",
         detect_outdated_download_url_pitfall(rule_input, 0))

NextDownload == CallDetectOutdatedDownloadUrl

SpecDownload == InitDownload /\ [][NextDownload]_vars

\* The download URL of the record, and whether codemeta.json is its source
DownloadUrl == rule_input.d.download_url.items[1].d.result.d.value

DownloadFromCodemeta ==
    Contains(rule_input.d.download_url.items[1].d.source.v, Chars("codemeta.json"))

\* The first release carries version 1.2.3 as its tag or in its name
LatestIsOneTwoThree ==
    /\ "releases" \in DOMAIN rule_input.d
    /\ rule_input.d.releases.items # <<>>
    /\ rule_input.d.releases.items[1].d.result
          \in {Dict([tag |-> Str(Chars("v1.2.3"))]), Dict([tag |-> Str(Chars("1.2.3"))]),
               Dict([tag |-> NoneVal, name |-> Str(Chars("Release v1.2.3"))])}

\* ------------------------------------------------------------------------
\* C22: the download-URL-outdated rule triggers exactly when a
\* codemeta-sourced download URL yields a version token, the first release
\* yields a version token from its tag or name, and the two tokens differ;
\* it does not trigger when either token cannot be extracted, and it does
\* not trigger when the version in the download URL is the version of the
\* latest release, as for .../archive/v1.2.3.tar.gz against release v1.2.3.
\* (Refuted: the token read from .../archive/v1.2.3.tar.gz is
\* "1.2.3.tar.gz".)
\* ------------------------------------------------------------------------
C22_TriggersOnDifferentVersions ==
    rule_called = "detect_outdated_download_url_pitfall" =>
        LET download_version == extract_version_from_download_url(DownloadUrl)
            latest_version   == get_latest_release_version(rule_input)
        IN  /\ ~rule_outcome[1].raised
            /\ rule_outcome[1].val.has_pitfall <=>
                  /\ DownloadFromCodemeta
                  /\ download_version.val # NoneVal
                  /\ latest_version.val # NoneVal
                  /\ download_version.val # latest_version.val
            /\ (/\ Contains(DownloadUrl.v, Chars("1.2.3"))
                /\ LatestIsOneTwoThree) => ~rule_outcome[1].val.has_pitfall

\* ------------------------------------------------------------------------
\* detect_pitfalls.py: PitfallAnalyzer._analyze_identifier_empty
\* ------------------------------------------------------------------------

\* not item or (isinstance(item, str) and item.strip() == "")
EmptyItem(item) == ~Truthy(item) \/ (IsStr(item) /\ Strip(item.v) = <<>>)

\* _analyze_identifier_empty(codemeta_data): has_pitfall and the analysis
analyze_identifier_empty(codemeta_data) ==
    LET identifier_value == PropertyIn(codemeta_data, {"identifier"})
        result(is_empty, identifier_type) ==
            [has_pitfall |-> is_empty,
             analysis |-> [has_identifier |-> TRUE, is_empty |-> is_empty,
                           identifier_type |-> identifier_type]]
    IN  IF identifier_value = NoneVal
        THEN [has_pitfall |-> FALSE,
              analysis |-> [has_identifier |-> FALSE, is_empty |-> FALSE,
                            identifier_type |-> "none"]]
        ELSE IF IsStr(identifier_value)
        THEN result(EmptyItem(identifier_value), "string")
        ELSE IF IsList(identifier_value)
        THEN result(\A k \in 1..Len(identifier_value.items) :
                        EmptyItem(identifier_value.items[k]), "list")
        ELSE IF IsDict(identifier_value)
        THEN result(\A key \in DOMAIN identifier_value.d :
                        EmptyItem(identifier_value.d[key]), "object")
        ELSE result(FALSE, "other")

\* Items of an identifier: blank ones and a DOI
IdentifierItems ==
    {NoneVal, Str(<<>>), Str(Chars("  ")), Str(Chars("10.5281/zenodo.1"))}

IdentifierValues ==
    IdentifierItems
        \cup {IntVal(<<"5">>), ListVal(<<>>), EmptyDict}
        \cup {ListVal(<<item>>) : item \in IdentifierItems}
        \cup {ListVal(<<first, second>>) : first \in IdentifierItems, second \in IdentifierItems}
        \cup {Dict([type |-> first, value |-> second]) :
                 first \in IdentifierItems, second \in IdentifierItems}

InitIdentifier ==
    /\ PipelineIdle
    /\ AnalyzerIdle
    /\ \/ rule_input = Dict([name |-> Str(Chars("mytool"))])
       \/ \E value \in IdentifierValues :
             \/ rule_input = Dict([identifier |-> value])
             \/ rule_input = Dict([Identifier |-> value, name |-> Str(Chars("mytool"))])
    /\ rule_called = "none"
    /\ rule_outcome = <<>>

CallAnalyzeIdentifierEmpty ==
    Call("_analyze_identifier_empty", analyze_identifier_empty(rule_input))

NextIdentifier == CallAnalyzeIdentifierEmpty

SpecIdentifier == InitIdentifier /\ [][NextIdentifier]_vars

\* The identifier key of the record, if it has one
IdentifierKeys == DOMAIN rule_input.d \cap {"identifier", "Identifier"}

\* null, or an empty or whitespace-only string
Blank(value) ==
    \/ value = NoneVal
    \/ value.t = "str" /\ \A k \in 1..Len(value.v) : value.v[k] \in SpaceChars

\* ------------------------------------------------------------------------
\* C23: the empty-identifier rule triggers exactly when an identifier key is
\* present and its value is null, an empty or whitespace-only string, an
\* empty list, a list whose items are all blank, or an object that is empty
\* or whose values are all blank; without an identifier key it does not
\* trigger.
\* (Refuted: a null identifier does not trigger.)
\* ------------------------------------------------------------------------
C23_EmptyIdentifier ==
    rule_called = "_analyze_identifier_empty" =>
        (rule_outcome[1].has_pitfall <=>
            \E key \in IdentifierKeys :
                LET value == rule_input.d[key]
                IN  \/ Blank(value)
                    \/ /\ value.t = "list"
                       /\ \A k \in 1..Len(value.items) : Blank(value.items[k])
                    \/ /\ value.t = "dict"
                       /\ \A k \in DOMAIN value.d : Blank(value.d[k]))

\* ------------------------------------------------------------------------
\* cli.py, run_somef.py, run_analyzer.py: a run of the command line, and a
\* call of run_analysis. The run reads rule_input (the command line and what
\* it finds on disk), keeps its position in rule_called and appends what it
\* starts to rule_outcome.
\* ------------------------------------------------------------------------
MaxListed == 3

\* f"output_{idx}.json"
OutputFile(index) == Chars("output_") \o <<DecimalDigits[index + 1]>> \o Chars(".json")

\* os.path.exists(input_value) and input_value.lower().endswith(".json")
BatchMode(input_value, exists) == exists /\ EndsWith(Lower(input_value), Chars(".json"))

\* run_somef_batch returns True whatever the runs did
AlwaysSuccess(repos) == TRUE

\* The value run_somef_batch returns for data.get("repositories", [])
run_somef_batch_success(repos) == repos # <<>>

\* subprocess.run(["somef", "describe", "-r", repo_url, "-o", output_file, ...])
SomefRun(repo_url, file, success) ==
    [started |-> "somef", repo_url |-> repo_url, output_file |-> file,
     success |-> success]

\* main(input_dir=...) of detect_pitfalls_main: the directory exists, so
\* detect_all_pitfalls runs and writes the summary
MainRun(input_dir) == [started |-> "main", input_dir |-> input_dir]

\* main(somef_json_paths=...): main has no such parameter
MainTypeError == [started |-> "TypeError"]

\* run_analysis(somef_input, pitfalls_dir, analysis_file): what it starts
run_analysis(somef_input) ==
    IF somef_input.type = "path"
    THEN IF somef_input.is_dir THEN <<MainRun(somef_input.path)>> ELSE <<>>
    ELSE <<MainTypeError>>

\* Command lines: the --input value, whether it exists, the repositories of
\* the file and the exit of the extractor for each run
CliInputs ==
    {[call |-> "cli", input_value |-> input_value, exists |-> exists,
      repositories |-> [k \in 1..n |-> <<"r", DecimalDigits[k + 1]>>],
      exits |-> exits] :
        input_value \in {Chars("https://github.com/a/b"), Chars("repos.json"),
                         Chars("Repos.JSON")},
        exists \in BOOLEAN, n \in 0..MaxListed,
        exits \in [1..MaxListed -> BOOLEAN]}

\* Arguments of run_analysis: a directory, a path that is no directory, an
\* iterable of paths
AnalysisInputs ==
    {[call |-> "run_analysis",
      somef_input |-> [type |-> "path", path |-> Chars("somef_outputs"), is_dir |-> is_dir]] :
        is_dir \in BOOLEAN}
      \cup {[call |-> "run_analysis",
             somef_input |-> [type |-> "iterable",
                              paths |-> [k \in 1..n |-> OutputFile(k)]]] :
               n \in 0..MaxListed}

InitCli ==
    /\ PipelineIdle
    /\ AnalyzerIdle
    /\ rule_input \in CliInputs \cup AnalysisInputs
    /\ rule_called = "none"
    /\ rule_outcome = <<>>

CliStep(position, started) ==
    /\ rule_called' = position
    /\ rule_outcome' = rule_outcome \o started
    /\ UNCHANGED <<rule_input, pipeline_vars, analyzer_vars>>

\* cli(): batch mode or single repository mode; run_somef_batch reads the
\* repositories and returns at once without any
Cli ==
    /\ rule_called = "none"
    /\ rule_input.call = "cli"
    /\ IF BatchMode(rule_input.input_value, rule_input.exists)
       THEN IF rule_input.repositories = <<>>
            THEN CliStep(IF run_somef_batch_success(rule_input.repositories)
                         THEN "run_analysis" ELSE "done", <<>>)
            ELSE CliStep("run_somef_batch", <<>>)
       ELSE CliStep("run_somef_single", <<>>)

\* One iteration of the loop of run_somef_batch: run_somef, whose result is
\* dropped; after the last one run_somef_batch returns
BatchRun ==
    /\ rule_called = "run_somef_batch"
    /\ LET index == Len(rule_outcome) + 1
       IN  CliStep(IF index < Len(rule_input.repositories) THEN "run_somef_batch"
                   ELSE IF run_somef_batch_success(rule_input.repositories)
                   THEN "run_analysis" ELSE "done",
                   <<SomefRun(rule_input.repositories[index], OutputFile(index),
                              rule_input.exits[index])>>)

\* run_somef_single: one run writing output_1.json; the output directory on
\* success, None otherwise
SingleRun ==
    /\ rule_called = "run_somef_single"
    /\ CliStep(IF rule_input.exits[1] THEN "run_analysis" ELSE "done",
               <<SomefRun(rule_input.input_value, OutputFile(1), rule_input.exits[1])>>)

\* run_analysis(somef_output_dir, ...) called by cli(): os.makedirs has made
\* the directory
CliRunAnalysis ==
    /\ rule_called = "run_analysis"
    /\ CliStep("done", run_analysis([type |-> "path", path |-> Chars("somef_outputs"),
                                     is_dir |-> TRUE]))

\* run_analysis called by a program
CallRunAnalysis ==
    /\ rule_called = "none"
    /\ rule_input.call = "run_analysis"
    /\ CliStep("done", run_analysis(rule_input.somef_input))

NextCli ==
    \/ Cli
    \/ BatchRun
    \/ SingleRun
    \/ CliRunAnalysis
    \/ CallRunAnalysis

SpecCli == InitCli /\ [][NextCli]_vars

\* ------------------------------------------------------------------------
\* C24: run_analysis accepts a directory path or an iterable of Path objects
\* naming SoMEF JSON files, and in both cases runs the analysis through
\* detect_pitfalls_main.main, without an error.
\* (Refuted: main has no parameter somef_json_paths.)
\* ------------------------------------------------------------------------
C24_DirectoryOrPaths ==
    (/\ rule_input.call = "run_analysis"
     /\ rule_called = "done"
     /\ rule_input.somef_input.type = "path" => rule_input.somef_input.is_dir)
        => /\ Len(rule_outcome) = 1
           /\ rule_outcome[1].started = "main"

\* What a run of the command line has started so far
SomefRuns == SelectSeq(rule_outcome, LAMBDA e : e.started = "somef")
MainRuns  == SelectSeq(rule_outcome, LAMBDA e : e.started = "main")

CliBatch ==
    /\ rule_input.call = "cli"
    /\ rule_input.exists
    /\ SubSeq(rule_input.input_value, Len(rule_input.input_value) - 4,
              Len(rule_input.input_value)) \in {Chars(".json"), Chars(".JSON")}

CliSingle == rule_input.call = "cli" /\ ~CliBatch

\* ------------------------------------------------------------------------
\* C25: in batch mode the extractor is run once for every listed repository
\* in list order, the i-th run writing output_<i>.json; a run that exits
\* with an error does not prevent the later runs; the analysis is started
\* exactly once and only after the last extraction run has returned; with
\* an empty list no analysis is started. In single-repository mode the
\* analysis is started only if the extraction succeeded.
\* ------------------------------------------------------------------------
C25_ExtractThenAnalyseOnce ==
    /\ CliBatch =>
          LET repos == rule_input.repositories
          IN  /\ \A i \in 1..Len(rule_outcome) :
                    \/ /\ i <= Len(repos)
                       /\ rule_outcome[i].started = "somef"
                       /\ rule_outcome[i].repo_url = repos[i]
                       /\ rule_outcome[i].output_file
                             = Chars("output_") \o <<DecimalDigits[i + 1]>> \o Chars(".json")
                    \/ /\ i = Len(repos) + 1
                       /\ repos # <<>>
                       /\ rule_outcome[i].started = "main"
              /\ rule_called = "done" =>
                    IF repos = <<>> THEN rule_outcome = <<>>
                    ELSE Len(SomefRuns) = Len(repos) /\ Len(MainRuns) = 1
    /\ CliSingle =>
          /\ Len(SomefRuns) <= 1
          /\ Len(MainRuns) <= 1
          /\ MainRuns # <<>> =>
                /\ Len(rule_outcome) = 2
                /\ rule_outcome[1].started = "somef"
                /\ rule_outcome[1].success
                /\ rule_outcome[1].output_file = Chars("output_1.json")
          /\ rule_called = "done" =>
                /\ SomefRuns # <<>>
                /\ MainRuns # <<>> <=> SomefRuns[1].success

\* A batch of three repositories is over: the first run failed, the third
\* wrote output_3.json and the analysis was started
C25_Witness ==
    /\ CliBatch
    /\ rule_called = "done"
    /\ Len(rule_input.repositories) = 3
    /\ ~rule_outcome[1].success
    /\ rule_outcome[3].output_file = Chars("output_3.json")
    /\ rule_outcome[4].started = "main"

\* ------------------------------------------------------------------------
\* C26: when analyze_all_repositories has returned, every counter
\* repositories_with_<pitfall> of the summary equals the number of detailed
\* results whose has_<pitfall> flag is true, and every counter
\* repositories_with_<property> equals the number of detailed results whose
\* analysis reports the property present. This is asked of all rules: the
\* README pointing to a non-README, the license pointing to a local file,
\* the software version that is a branch name and the copyright-only LICENSE
\* whose file also has placeholders included.
\* ------------------------------------------------------------------------
\* The counter of each pitfall flag of a detailed result
PitfallCounters ==
    [has_license |-> <<"license", "repositories_with_license">>,
     has_license_placeholders |->
         <<"license", "repositories_with_license_placeholders">>,
     has_license_copyright_only |->
         <<"license", "repositories_with_license_copyright_only">>,
     has_codemeta |-> <<"codemeta", "repositories_with_codemeta">>,
     has_software_requirements_without_versions |->
         <<"codemeta", "repositories_with_software_requirements_without_versions">>,
     has_software_requirements_with_local_file_urls |->
         <<"codemeta", "repositories_with_software_requirements_with_local_file_urls">>,
     has_software_requirements_with_homepage_urls |->
         <<"codemeta", "repositories_with_software_requirements_with_homepage_urls">>,
     has_readme_pointing_to_non_readme |->
         <<"codemeta", "repositories_with_readme_pointing_to_non_readme">>,
     has_license_pointing_to_local_file |->
         <<"codemeta", "repositories_with_license_pointing_to_local_file">>,
     has_software_version_as_branch |->
         <<"codemeta", "repositories_with_software_version_as_branch">>,
     has_programming_languages_without_versions |->
         <<"codemeta", "repositories_with_programming_languages_without_versions">>,
     has_empty_identifier |-> <<"codemeta", "repositories_with_empty_identifier">>,
     has_keywords_as_string |-> <<"codemeta", "repositories_with_keywords_as_string">>,
     has_code_repository_pointing_to_homepage |->
         <<"codemeta", "repositories_with_code_repository_pointing_to_homepage">>]

\* The counter of each property: the analysis of a detailed result and the
\* flag of that analysis which tells that the property is there
PropertyCounters ==
    [repositories_with_software_requirements |->
         <<"software_requirements_analysis", "has_software_requirements">>,
     repositories_with_readme_property |-> <<"readme_analysis", "has_readme_property">>,
     repositories_with_license_property |-> <<"license_analysis", "has_license_property">>,
     repositories_with_software_version |->
         <<"software_version_analysis", "has_software_version">>,
     repositories_with_programming_languages |->
         <<"programming_languages_analysis", "has_programming_languages">>,
     repositories_with_identifier |-> <<"identifier_analysis", "has_identifier">>,
     repositories_with_keywords |-> <<"keywords_analysis", "has_keywords">>,
     repositories_with_code_repository |->
         <<"code_repository_analysis", "has_code_repository">>]

\* The counters of one part of a summary
SummaryCounters(summary, part) ==
    IF part = "license" THEN summary.license_analysis ELSE summary.codemeta_analysis

\* How many detailed results of a summary have a pitfall flag true
Flagged(summary, flag) ==
    Cardinality({k \in 1..Len(summary.detailed_results) :
                    summary.detailed_results[k][flag]})

\* How many detailed results of a summary report a property present
Reporting(summary, analysis, flag) ==
    Cardinality({k \in 1..Len(summary.detailed_results) :
                    Get(summary.detailed_results[k][analysis], flag, FALSE)})

C26_CountersMatchResults ==
    pa_pc = "done" =>
        /\ \A flag \in DOMAIN PitfallCounters :
              SummaryCounters(pa_summary[1], PitfallCounters[flag][1])
                  [PitfallCounters[flag][2]] = Flagged(pa_summary[1], flag)
        /\ \A counter \in DOMAIN PropertyCounters :
              pa_summary[1].codemeta_analysis[counter] =
                  Reporting(pa_summary[1], PropertyCounters[counter][1],
                            PropertyCounters[counter][2])

\* ------------------------------------------------------------------------
\* C27: when a homepage pattern matches the codeRepository value,
\* detected_type names the kind of the first matching pattern in table
\* order: domain_root for a bare domain root (the .org, .com and .net rows
\* and the row of any host), documentation_site for the readthedocs row and
\* the docs. and documentation. rows, github_pages for the *.github.io row,
\* homepage_page for the /index.html, /home and /about rows, social_profile
\* for the LinkedIn, Twitter, Academia and ORCID rows, homepage for the
\* user or organization root of GitHub, GitLab and Bitbucket.
\* ------------------------------------------------------------------------
\* The kind of each row of homepage_patterns
PatternKinds ==
    <<"domain_root", "domain_root", "domain_root", "domain_root", "domain_root",
      "domain_root",
      "documentation_site", "github_pages", "documentation_site", "documentation_site",
      "homepage_page", "homepage_page", "homepage_page", "domain_root",
      "social_profile", "social_profile", "social_profile", "social_profile",
      "homepage", "homepage", "homepage">>

\* The rows of homepage_patterns that match the value of the call
MatchingRows ==
    {k \in 1..Len(homepage_patterns) :
        Match(homepage_patterns[k], Lower(rule_input.d["codeRepository"].v))}

C27_KindOfFirstMatchingPattern ==
    (/\ rule_called = "_analyze_code_repository_homepage_url"
     /\ MatchingRows # {})
        => /\ rule_outcome[1].analysis.points_to_homepage
           /\ rule_outcome[1].analysis.detected_type = PatternKinds[MinPos(MatchingRows)]

\* ------------------------------------------------------------------------
\* Single calls of detect_local_file_license_pitfall
\* ------------------------------------------------------------------------

\* license observations: a technique, a source and a value
LicenseTechniques == {Chars("code_parser"), Chars("file_exploration")}

LicenseSources ==
    {Chars("repo/codemeta.json"), Chars("repo/DESCRIPTION"), Chars("repo/setup.py"),
     Chars("repo/README.md")}

LicenseObserved == {Str(Chars("LICENSE.md")), Str(Chars("./COPYING")), Str(Chars("MIT"))}

LicenseEntries ==
    {Obs(technique, source, value) :
        technique \in LicenseTechniques, source \in LicenseSources,
        value \in LicenseObserved}

InitLocalFileLicense ==
    /\ PipelineIdle
    /\ AnalyzerIdle
    /\ \E n \in 0..MaxEntries : \E s \in [1..n -> LicenseEntries] :
          rule_input = Dict([license |-> ListVal(s)])
    /\ rule_called = "none"
    /\ rule_outcome = <<>>

CallDetectLocalFileLicense ==
    Call("detect_local_file_license_pitfall",
         detect_local_file_license_pitfall(rule_input, 0))

NextLocalFileLicense == CallDetectLocalFileLicense

SpecLocalFileLicense == InitLocalFileLicense /\ [][NextLocalFileLicense]_vars

\* ------------------------------------------------------------------------
\* C28: detect_local_file_license_pitfall evaluates a license observation
\* exactly when its technique is code_parser or its source path names one
\* of the eight metadata files (codemeta.json, DESCRIPTION, composer.json,
\* package.json, pom.xml, pyproject.toml, requirements.txt, setup.py), so an
\* observation read from DESCRIPTION is evaluated whatever its technique;
\* the finding reports the first such observation in record order whose
\* value is a local file, and there is no finding when there is none.
\* ------------------------------------------------------------------------
LicenseObservations == rule_input.d.license.items

\* The source path of an observation names one of the eight files
NamesMetadataFile(entry) ==
    \E file \in {"codemeta.json", "DESCRIPTION", "composer.json", "package.json",
                 "pom.xml", "pyproject.toml", "requirements.txt", "setup.py"} :
        EndsWith(entry.d.source.v, Chars("/" \o file))

\* The observations the rule is to evaluate and that hold a local file
LocalFileObservations ==
    {k \in 1..Len(LicenseObservations) :
        /\ \/ LicenseObservations[k].d.technique = Str(Chars("code_parser"))
           \/ NamesMetadataFile(LicenseObservations[k])
        /\ is_local_file_license(LicenseObservations[k].d.result.d.value).val}

C28_EvaluatesMetadataObservations ==
    rule_called = "detect_local_file_license_pitfall" =>
        /\ ~rule_outcome[1].raised
        /\ rule_outcome[1].val.has_pitfall = (LocalFileObservations # {})
        /\ LocalFileObservations # {} =>
              LET first == LicenseObservations[MinPos(LocalFileObservations)]
              IN  /\ rule_outcome[1].val.license_value = first.d.result.d.value
                  /\ rule_outcome[1].val.source = first.d.source

\* ------------------------------------------------------------------------
\* C29: between two files and in the finalized summary, for every rule
\* 0 <= count <= total_repositories_analyzed and 0 <= percentage <= 100;
\* every language counted under a rule is one of the target languages and
\* its count is at least 1 and at most the count of the rule;
\* repositories_with_target_languages <= total_repositories_analyzed and
\* individual_jsonld_files_created <= total_repositories_analyzed.
\* ------------------------------------------------------------------------
\* The language counts of an entry fit under the count of its rule
LanguagesWithin(entry, count) ==
    \A l \in DOMAIN entry.languages :
        /\ l \in target_languages
        /\ entry.languages[l] >= 1
        /\ entry.languages[l] <= count

C29_SummaryWithinTotals ==
    /\ pc \in {"loop", "write", "done"} =>
          /\ repos_with_target_languages >= 0
          /\ repos_with_target_languages <= total_repos
          /\ jsonld_files_created >= 0
          /\ jsonld_files_created <= total_repos
          /\ \A i \in 1..NumRules :
                /\ pitfall_counts[i] >= 0
                /\ pitfall_counts[i] <= total_repos
                /\ LanguagesWithin(results.entries[i], pitfall_counts[i])
    /\ pc \in {"write", "done"} =>
          LET total == results.summary.total_repositories_analyzed
          IN  /\ results.summary.repositories_with_target_languages <= total
              /\ results.summary.individual_jsonld_files_created <= total
              /\ \A i \in 1..NumRules :
                    /\ results.entries[i].count >= 0
                    /\ results.entries[i].count <= total
                    /\ results.entries[i].percentage >= 0
                    /\ results.entries[i].percentage <= 10000
                    /\ LanguagesWithin(results.entries[i], results.entries[i].count)
    /\ pc = "done" => output_file = <<results>>

\* The summary of three files is written: a rule triggered on two of them,
\* both counted under one of its languages, and fewer documents were saved
\* and fewer repositories have target languages than files were analysed
C29_Witness ==
    /\ pc = "done"
    /\ output_file[1].summary.total_repositories_analyzed = 3
    /\ output_file[1].summary.individual_jsonld_files_created \in {1, 2}
    /\ output_file[1].summary.repositories_with_target_languages \in {1, 2}
    /\ \E i \in 1..NumRules :
          /\ output_file[1].entries[i].count = 2
          /\ output_file[1].entries[i].percentage = 6667
          /\ \E l \in DOMAIN output_file[1].entries[i].languages :
                output_file[1].entries[i].languages[l] = 2

\* ------------------------------------------------------------------------
\* C30: total_repositories_analyzed is the number of *.json files found in
\* the input directory. A file is counted when the loop takes it, before it
\* is loaded, so a file that cannot be parsed or whose processing is
\* aborted stays counted; and the percentage of every rule is its count
\* over this total, not over the number of records the rules ran on.
\* ------------------------------------------------------------------------
C30_TotalCountsEveryFile ==
    /\ pc # "idle" => total_repos = Cardinality(Files \ pending)
    /\ pc \in {"write", "done"} =>
          /\ results.summary.total_repositories_analyzed = Cardinality(Files)
          /\ Files # {} =>
                \A i \in 1..NumRules :
                    results.entries[i].percentage =
                        RoundPercentage(results.entries[i].count, Cardinality(Files))

\* Three files of which one could not be parsed: the total is 3, and a rule
\* that triggered on one of the two records has 33.33, not 50.0
C30_Witness ==
    /\ pc = "done"
    /\ Cardinality({f \in Files : File(f).json # "ok"}) = 1
    /\ output_file[1].summary.total_repositories_analyzed = 3
    /\ \E i \in 1..NumRules :
          /\ output_file[1].entries[i].count = 1
          /\ output_file[1].entries[i].percentage = 3333

====
